---- MODULE Spec2Model ----
(***************************************************************************)
(* Model of TextLexer: the scanner (Lexer class, its token record writer    *)
(* and the reader of the records, readTokens) and the parser (Parser       *)
(* class): the token cursor, the two-stack operator-precedence expression  *)
(* engine and the recursive descent statement grammar.  The cursor `current` is 0-based as in the   *)
(* source; TLA+ sequences are 1-based, so tokens[current] of the source is *)
(* toks[cur + 1] here.  error() ends the process (exit(1)): a failed parse *)
(* is a result with ok = FALSE and the message passed to error().          *)
(***************************************************************************)
EXTENDS Integers, Sequences, FiniteSets, TLC

VARIABLES
    tokens,       \* Parser::tokens
    current,      \* Parser::current
    nodeStack,    \* parseArithmeticExpr: the operand stack, top last
    opStack,      \* parseArithmeticExpr: the operator stack, top last
    programNode,  \* parse: the root under construction
    stmtsNode,    \* parseStmts: the statement list under construction
    pc,           \* the position of the run
    result,       \* what the run returned, or the error() that ended it
    source,       \* Lexer::source, a sequence of characters
    pos,          \* Lexer::pos
    line,         \* Lexer::line
    column,       \* Lexer::column
    scanned,      \* the tokens getNextToken has returned to main, in order
    lexOut        \* lex_out.txt: the lines main has written

lexVars == <<source, pos, line, column, scanned, lexOut>>

vars ==
    <<tokens, current, nodeStack, opStack, programNode, stmtsNode, pc, result,
      source, pos, line, column, scanned, lexOut>>

(***************************************************************************)
(* Tokens and tree nodes                                                   *)
(***************************************************************************)
Token(t, v) == [type |-> t, value |-> v]

TreeNode(t, v, ch) == [type |-> t, value |-> v, children |-> ch]

\* a null child pointer (forNode->children.push_back(nullptr))
nullptr == [type |-> "nullptr", value |-> "", children |-> <<>>]

\* F applied to the value of v, v evaluated once: the statement sequence
\* `x = v; ... F(x) ...` of the source
Then(v, F(_)) == CHOOSE r \in {F(x) : x \in {v}} : TRUE

Last(s) == s[Len(s)]

Front(s) == SubSeq(s, 1, Len(s) - 1)

(***************************************************************************)
(* Cursor helpers                                                          *)
(***************************************************************************)
peek(toks, cur) == IF cur < Len(toks) THEN toks[cur + 1] ELSE Token("TOKEN_ERROR", "")

previous(toks, cur) == IF cur > 0 THEN toks[cur] ELSE Token("TOKEN_ERROR", "")

isAtEnd(toks, cur) == peek(toks, cur).type = "TOKEN_ERROR" /\ peek(toks, cur).value = ""

\* the cursor after advance()
advance(toks, cur) == IF ~isAtEnd(toks, cur) THEN cur + 1 ELSE cur

\* check(TokenType)
check(toks, cur, type) == ~isAtEnd(toks, cur) /\ peek(toks, cur).type = type

\* check(TokenType, value)
check2(toks, cur, type, value) ==
    ~isAtEnd(toks, cur) /\ peek(toks, cur).type = type /\ peek(toks, cur).value = value

\* a parse function's outcome: the node and the cursor after it, or the
\* message of the error() call that ended the run
Ok(cur, node) == [ok |-> TRUE, cur |-> cur, node |-> node, msg |-> ""]

error(cur, message) == [ok |-> FALSE, cur |-> cur, node |-> nullptr, msg |-> message]

(***************************************************************************)
(* Expression engine: parseArithmeticExpr                                  *)
(***************************************************************************)
PrecedenceTable ==
    [op \in {"||", "&&", "==", "!=", "<", "<=", ">", ">=", "+", "-", "*", "/", "%", "!", "++", "--"} |->
        CASE op = "||" -> 1
          [] op = "&&" -> 2
          [] op \in {"==", "!=", "<", "<=", ">", ">="} -> 3
          [] op \in {"+", "-"} -> 4
          [] op \in {"*", "/", "%"} -> 5
          [] OTHER -> 6]

\* precedence[op]: unordered_map::operator[] yields 0 for a key not in the table
precedence(op) == IF op \in DOMAIN PrecedenceTable THEN PrecedenceTable[op] ELSE 0

\* the state of one engine run
Engine(cur, ns, os, err) == [cur |-> cur, nodeStack |-> ns, opStack |-> os, err |-> err]

\* the operators processOp reduces with one operand
isUnaryOp(op) == op \in {"!", "++", "--"}

processOp(e) ==
    LET op == Last(e.opStack)
        os == Front(e.opStack)
        ns == e.nodeStack
    IN  IF isUnaryOp(op)
        THEN IF ns = <<>>
             THEN Engine(e.cur, ns, os, "Missing operand for unary operator")
             ELSE Engine(e.cur, Append(Front(ns), TreeNode("NODE_OP", op, <<Last(ns)>>)), os, "")
        ELSE IF Len(ns) < 2
             THEN Engine(e.cur, ns, os, "Missing operands for binary operator")
             ELSE LET right == Last(ns)
                      left == Last(Front(ns))
                  IN  Engine(e.cur,
                             Append(Front(Front(ns)), TreeNode("NODE_OP", op, <<left, right>>)),
                             os, "")

\* exprLoopCond that stops at a ")" as well
exprLoopCondParen(toks, cur) ==
    /\ ~isAtEnd(toks, cur)
    /\ ~check2(toks, cur, "TOKEN_SEP", ";")
    /\ ~check2(toks, cur, "TOKEN_SEP", ",")
    /\ ~check2(toks, cur, "TOKEN_SEP", ")")
    /\ ~check2(toks, cur, "TOKEN_KEYWORD", "then")
    /\ ~check2(toks, cur, "TOKEN_KEYWORD", "do")
    /\ ~check2(toks, cur, "TOKEN_KEYWORD", "else")
    /\ ~check2(toks, cur, "TOKEN_SEP", "{")

\* while (!isAtEnd() && !check(";") && !check(",") && !check("then") ...
exprLoopCond(toks, cur) ==
    /\ ~isAtEnd(toks, cur)
    /\ ~check2(toks, cur, "TOKEN_SEP", ";")
    /\ ~check2(toks, cur, "TOKEN_SEP", ",")
    /\ ~check2(toks, cur, "TOKEN_KEYWORD", "then")
    /\ ~check2(toks, cur, "TOKEN_KEYWORD", "do")
    /\ ~check2(toks, cur, "TOKEN_KEYWORD", "else")
    /\ ~check2(toks, cur, "TOKEN_SEP", "{")

\* if (match(TOKEN_SEP, "(")) opStack.push("(");
lparenBranch(e) == Engine(e.cur + 1, e.nodeStack, Append(e.opStack, "("), "")

\* while (!opStack.empty() && opStack.top() != "(") processOp();
RECURSIVE reduceToParen(_)
reduceToParen(e) ==
    IF e.err = "" /\ e.opStack # <<>> /\ Last(e.opStack) # "("
    THEN Then(processOp(e), LAMBDA r : reduceToParen(r))
    ELSE e

\* rparenBranch with `if` for `while`: at most one operator is reduced
rparenReduceOnce(e) ==
    Then(IF e.opStack # <<>> /\ Last(e.opStack) # "("
         THEN processOp(Engine(e.cur + 1, e.nodeStack, e.opStack, ""))
         ELSE Engine(e.cur + 1, e.nodeStack, e.opStack, ""),
         LAMBDA r :
             IF r.err # "" THEN r
             ELSE IF r.opStack = <<>>
                  THEN Engine(r.cur, r.nodeStack, r.opStack, "Unmatched parentheses")
                  ELSE Engine(r.cur, r.nodeStack, Front(r.opStack), ""))

\* else if (match(TOKEN_SEP, ")")) { ... opStack.pop(); }
rparenBranch(e) ==
    Then(reduceToParen(Engine(e.cur + 1, e.nodeStack, e.opStack, "")),
         LAMBDA r :
             IF r.err # "" THEN r
             ELSE IF r.opStack = <<>>
                  THEN Engine(r.cur, r.nodeStack, r.opStack, "Unmatched parentheses")
                  ELSE Engine(r.cur, r.nodeStack, Front(r.opStack), ""))

\* if (op == "-" && (nodeStack.empty() || (!opStack.empty() && opStack.top() == "("))) op = "neg";
relabel(op, ns, os) ==
    IF op = "-" /\ (ns = <<>> \/ (os # <<>> /\ Last(os) = "(")) THEN "neg" ELSE op

\* popCond with > for >=: equal precedences would group to the right
popCondStrict(os, op) ==
    os # <<>> /\ Last(os) # "(" /\ precedence(Last(os)) > precedence(op)

\* while (!opStack.empty() && opStack.top() != "(" && precedence[top] >= precedence[op])
popCond(os, op) ==
    os # <<>> /\ Last(os) # "(" /\ precedence(Last(os)) >= precedence(op)

RECURSIVE reduceWhilePrec(_, _)
reduceWhilePrec(e, op) ==
    IF e.err = "" /\ popCond(e.opStack, op)
    THEN Then(processOp(e), LAMBDA r : reduceWhilePrec(r, op))
    ELSE e

\* else if (match(TOKEN_OP)) { ... opStack.push(op); }
operatorBranch(toks, e) ==
    Then(relabel(peek(toks, e.cur).value, e.nodeStack, e.opStack),
         LAMBDA op :
             Then(reduceWhilePrec(Engine(e.cur + 1, e.nodeStack, e.opStack, ""), op),
                  LAMBDA r :
                      IF r.err # "" THEN r
                      ELSE Engine(r.cur, r.nodeStack, Append(r.opStack, op), "")))

\* the node type of an operand token
operandNodeType(type) ==
    CASE type = "TOKEN_ID" -> "NODE_ID"
      [] type = "TOKEN_NUM" -> "NODE_NUM"
      [] type = "TOKEN_FLOAT" -> "NODE_FLOAT"
      [] type = "TOKEN_BOOL" -> "NODE_BOOLVAL"
      [] OTHER -> ""

isOperandToken(toks, cur) ==
    \/ check(toks, cur, "TOKEN_ID")
    \/ check(toks, cur, "TOKEN_NUM")
    \/ check(toks, cur, "TOKEN_FLOAT")
    \/ check(toks, cur, "TOKEN_BOOL")

\* else { operand ... nodeStack.push(operand); }
operandBranch(toks, e) ==
    IF isOperandToken(toks, e.cur)
    THEN Engine(e.cur + 1,
                Append(e.nodeStack,
                       TreeNode(operandNodeType(peek(toks, e.cur).type), peek(toks, e.cur).value, <<>>)),
                e.opStack, "")
    ELSE Engine(e.cur, e.nodeStack, e.opStack, "Expected operand in expression")

\* one iteration of the main loop
exprStep(toks, e) ==
    IF check2(toks, e.cur, "TOKEN_SEP", "(") THEN lparenBranch(e)
    ELSE IF check2(toks, e.cur, "TOKEN_SEP", ")") THEN rparenBranch(e)
    ELSE IF check(toks, e.cur, "TOKEN_OP") THEN operatorBranch(toks, e)
    ELSE operandBranch(toks, e)

RECURSIVE exprLoop(_, _)
exprLoop(toks, e) ==
    IF e.err = "" /\ exprLoopCond(toks, e.cur)
    THEN Then(exprStep(toks, e), LAMBDA s : exprLoop(toks, s))
    ELSE e

\* while (!opStack.empty()) { if (top == "(") error(...); processOp(); }
RECURSIVE exprDrain(_)
exprDrain(e) ==
    IF e.err # "" \/ e.opStack = <<>> THEN e
    ELSE IF Last(e.opStack) = "("
         THEN Engine(e.cur, e.nodeStack, e.opStack, "Unmatched parentheses")
         ELSE Then(processOp(e), LAMBDA r : exprDrain(r))

\* exprFinish without the check for more than one operand
exprFinishTop(e) ==
    IF e.err # "" THEN error(e.cur, e.err)
    ELSE IF e.nodeStack = <<>> THEN error(e.cur, "Empty expression")
    ELSE Ok(e.cur, TreeNode("NODE_EXPR", "", <<Last(e.nodeStack)>>))

\* the final checks and the NODE_EXPR wrapper
exprFinish(e) ==
    IF e.err # "" THEN error(e.cur, e.err)
    ELSE IF e.nodeStack = <<>> THEN error(e.cur, "Empty expression")
    ELSE IF Len(e.nodeStack) > 1 THEN error(e.cur, "Malformed expression")
    ELSE Ok(e.cur, TreeNode("NODE_EXPR", "", <<Last(e.nodeStack)>>))

parseArithmeticExpr(toks, cur) ==
    IF check2(toks, cur, "TOKEN_SEP", ";")
    THEN error(cur, "Empty expression not allowed here")
    ELSE Then(exprLoop(toks, Engine(cur, <<>>, <<>>, "")),
              LAMBDA e : Then(exprDrain(e), LAMBDA d : exprFinish(d)))

(***************************************************************************)
(* Statement and declaration grammar (recursive descent).  The messages of *)
(* consume(type, value, message) are kept without the " (Actual: ...)"     *)
(* suffix the source appends.                                              *)
(***************************************************************************)
RECURSIVE parseStmt(_, _), parseBlock(_, _), blockLoop(_, _, _), parseIfStmt(_, _),
          parseWhileStmt(_, _), parseForStmt(_, _), declVarLoop(_, _, _, _),
          declsVarLoop(_, _, _, _), declsLoop(_, _, _), idListLoop(_, _, _, _)

isRelationalTok(toks, cur) ==
    \/ check2(toks, cur, "TOKEN_OP", ">")
    \/ check2(toks, cur, "TOKEN_OP", "<")
    \/ check2(toks, cur, "TOKEN_OP", ">=")
    \/ check2(toks, cur, "TOKEN_OP", "<=")
    \/ check2(toks, cur, "TOKEN_OP", "==")
    \/ check2(toks, cur, "TOKEN_OP", "!=")

\* parseBoolExpr after the first parseArithmeticExpr
boolExprRest(toks, left) ==
    IF ~left.ok THEN left
    ELSE IF check2(toks, left.cur, "TOKEN_SEP", "{") THEN left
    ELSE IF isRelationalTok(toks, left.cur)
         THEN Then(parseArithmeticExpr(toks, advance(toks, left.cur)),
                   LAMBDA right :
                       IF ~right.ok THEN right
                       ELSE Ok(right.cur,
                               TreeNode("NODE_BOOL", peek(toks, left.cur).value,
                                        <<left.node, right.node>>)))
    ELSE left

parseBoolExpr(toks, cur) ==
    Then(parseArithmeticExpr(toks, cur), LAMBDA left : boolExprRest(toks, left))

isTypeKeyword(toks, cur) ==
    \/ check2(toks, cur, "TOKEN_KEYWORD", "int")
    \/ check2(toks, cur, "TOKEN_KEYWORD", "float")
    \/ check2(toks, cur, "TOKEN_KEYWORD", "bool")

\* the initializer of a declared variable
parseInit(toks, cur, type) ==
    IF type = "bool" THEN parseBoolExpr(toks, cur) ELSE parseArithmeticExpr(toks, cur)

\* parseDecl: do { consume(TOKEN_ID) ... } while (match(TOKEN_SEP, ","));
declVarLoop(toks, cur, type, ch) ==
    IF ~check(toks, cur, "TOKEN_ID") THEN error(cur, "Expected variable name")
    ELSE Then(IF check2(toks, cur + 1, "TOKEN_OP", "=")
              THEN parseInit(toks, cur + 2, type)
              ELSE Ok(cur + 1, nullptr),
              LAMBDA init :
                  IF ~init.ok THEN init
                  ELSE Then(Append(ch, TreeNode("NODE_ID", peek(toks, cur).value, <<>>))
                                \o (IF init.node = nullptr THEN <<>> ELSE <<init.node>>),
                            LAMBDA chs :
                                IF check2(toks, init.cur, "TOKEN_SEP", ",")
                                THEN declVarLoop(toks, init.cur + 1, type, chs)
                                ELSE Ok(init.cur, TreeNode("NODE_LIST", "", chs))))

parseDecl(toks, cur) ==
    IF ~isTypeKeyword(toks, cur) THEN error(cur, "Expected type keyword in declaration")
    ELSE Then(declVarLoop(toks, cur + 1, peek(toks, cur).value,
                          <<TreeNode("NODE_TYPE", peek(toks, cur).value, <<>>)>>),
              LAMBDA d :
                  IF ~d.ok THEN d
                  ELSE IF check2(toks, d.cur, "TOKEN_SEP", ";") THEN Ok(d.cur + 1, d.node)
                  ELSE error(d.cur, "Expected ';' after declaration"))

\* parseDecls: do { if (match(";")) break; consume(TOKEN_ID) ... } while (match(","));
declsVarLoop(toks, cur, type, ch) ==
    IF check2(toks, cur, "TOKEN_SEP", ";") THEN Ok(cur + 1, TreeNode("NODE_LIST", "", ch))
    ELSE IF ~check(toks, cur, "TOKEN_ID")
         THEN error(cur, "Expected variable name in declaration")
    ELSE Then(IF check2(toks, cur + 1, "TOKEN_OP", "=")
              THEN parseInit(toks, cur + 2, type)
              ELSE Ok(cur + 1, nullptr),
              LAMBDA init :
                  IF ~init.ok THEN init
                  ELSE Then(Append(ch, TreeNode("NODE_ID", peek(toks, cur).value, <<>>))
                                \o (IF init.node = nullptr THEN <<>> ELSE <<init.node>>),
                            LAMBDA chs :
                                IF check2(toks, init.cur, "TOKEN_SEP", ",")
                                THEN declsVarLoop(toks, init.cur + 1, type, chs)
                                ELSE Ok(init.cur, TreeNode("NODE_LIST", "", chs))))

\* parseDecls: while (!isAtEnd()) { if (type keyword) { ... } else break; }
declsLoop(toks, cur, ch) ==
    IF ~isAtEnd(toks, cur) /\ isTypeKeyword(toks, cur)
    THEN Then(declsVarLoop(toks, cur + 1, peek(toks, cur).value,
                           <<TreeNode("NODE_TYPE", peek(toks, cur).value, <<>>)>>),
              LAMBDA d :
                  IF ~d.ok THEN d
                  ELSE IF check2(toks, d.cur, "TOKEN_SEP", ";")
                       THEN declsLoop(toks, d.cur + 1, Append(ch, d.node))
                  ELSE error(d.cur, "Expected ';' after declaration"))
    ELSE Ok(cur, TreeNode("NODE_DECLS", "", ch))

parseDecls(toks, cur) == declsLoop(toks, cur, <<>>)

\* the right-hand side of "=": a boolean expression after a bool literal, "!",
\* an identifier or "(", an arithmetic expression otherwise
assignRhs(toks, cur, op) ==
    IF op = "="
    THEN IF \/ check(toks, cur, "TOKEN_BOOL")
            \/ check2(toks, cur, "TOKEN_OP", "!")
            \/ check(toks, cur, "TOKEN_ID")
            \/ check2(toks, cur, "TOKEN_SEP", "(")
         THEN parseBoolExpr(toks, cur)
         ELSE parseArithmeticExpr(toks, cur)
    ELSE parseArithmeticExpr(toks, cur)

\* if (!inForLoop) consume(TOKEN_SEP, ";", ...); return assignNode;
assignEnd(toks, cur, inForLoop, node) ==
    IF inForLoop THEN Ok(cur, node)
    ELSE IF check2(toks, cur, "TOKEN_SEP", ";") THEN Ok(cur + 1, node)
    ELSE error(cur, "Expected ';' after assignment")

parseAssignStmt(toks, cur, inForLoop) ==
    IF ~check(toks, cur, "TOKEN_ID") THEN error(cur, "Expected identifier in assignment")
    ELSE LET idNode == TreeNode("NODE_ID", peek(toks, cur).value, <<>>)
             op == peek(toks, cur + 1).value
         IN  IF op = "++" \/ op = "--"
             THEN IF ~check(toks, cur + 1, "TOKEN_OP") THEN error(cur + 1, "Expected operator")
                  ELSE assignEnd(toks, cur + 2, inForLoop, TreeNode("NODE_ASSIGN", op, <<idNode>>))
             ELSE IF ~check(toks, cur + 1, "TOKEN_OP")
                  THEN error(cur + 1, "Expected assignment operator")
                  ELSE Then(assignRhs(toks, cur + 2, op),
                            LAMBDA rhs :
                                IF ~rhs.ok THEN rhs
                                ELSE assignEnd(toks, rhs.cur, inForLoop,
                                               TreeNode("NODE_ASSIGN", op, <<idNode, rhs.node>>)))

\* while (!isAtEnd() && !check(TOKEN_SEP, "}")) { stmt = parseStmt(); children.push_back(stmt); }
blockLoop(toks, cur, ch) ==
    IF ~isAtEnd(toks, cur) /\ ~check2(toks, cur, "TOKEN_SEP", "}")
    THEN Then(parseStmt(toks, cur),
              LAMBDA stmt :
                  IF ~stmt.ok THEN stmt ELSE blockLoop(toks, stmt.cur, Append(ch, stmt.node)))
    ELSE Ok(cur, TreeNode("NODE_BLOCK", "", ch))

parseBlock(toks, cur) ==
    IF ~check2(toks, cur, "TOKEN_SEP", "{") THEN error(cur, "Expected '{' to start block")
    ELSE Then(blockLoop(toks, cur + 1, <<>>),
              LAMBDA b :
                  IF ~b.ok THEN b
                  ELSE IF check2(toks, b.cur, "TOKEN_SEP", "}") THEN Ok(b.cur + 1, b.node)
                  ELSE error(b.cur, "Expected '}' to end block"))

\* parseIfStmt after the then-branch: the optional else
ifElse(toks, cur, cond, thenBranch) ==
    IF check2(toks, cur, "TOKEN_KEYWORD", "else")
    THEN IF ~check2(toks, cur + 1, "TOKEN_SEP", "{")
         THEN error(cur + 1, "Expected '{' to start else block")
         ELSE Then(parseBlock(toks, cur + 2),
                   LAMBDA elseBranch :
                       IF ~elseBranch.ok THEN elseBranch
                       ELSE Ok(elseBranch.cur,
                               TreeNode("NODE_IF", "", <<cond, thenBranch, elseBranch.node>>)))
    ELSE Ok(cur, TreeNode("NODE_IF", "", <<cond, thenBranch>>))

\* parseIfStmt after consume("{"): a block if another "{" follows, else one
\* statement and the ";" after it, if any
ifThen(toks, cur) ==
    IF check2(toks, cur, "TOKEN_SEP", "{")
    THEN parseBlock(toks, cur + 1)
    ELSE Then(parseStmt(toks, cur),
              LAMBDA stmt :
                  IF ~stmt.ok THEN stmt
                  ELSE IF check2(toks, stmt.cur, "TOKEN_SEP", ";")
                       THEN Ok(advance(toks, stmt.cur), stmt.node)
                       ELSE stmt)

\* parseIfStmt after the condition
ifRest(toks, cond) ==
    IF ~cond.ok THEN cond
    ELSE IF ~check2(toks, cond.cur, "TOKEN_SEP", ")")
         THEN error(cond.cur, "Expected ')' after condition")
    ELSE IF ~check2(toks, cond.cur + 1, "TOKEN_SEP", "{")
         THEN error(cond.cur + 1, "Expected '{' to start if block")
    ELSE Then(ifThen(toks, cond.cur + 2),
              LAMBDA thenBranch :
                  IF ~thenBranch.ok THEN thenBranch
                  ELSE ifElse(toks, thenBranch.cur, cond.node, thenBranch.node))

parseIfStmt(toks, cur) ==
    IF ~check2(toks, cur, "TOKEN_KEYWORD", "if") THEN error(cur, "Expected 'if'")
    ELSE IF ~check2(toks, cur + 1, "TOKEN_SEP", "(") THEN error(cur + 1, "Expected '(' after 'if'")
    ELSE Then(parseBoolExpr(toks, cur + 2), LAMBDA cond : ifRest(toks, cond))

\* parseWhileStmt after the condition
whileRest(toks, cond) ==
    IF ~cond.ok THEN cond
    ELSE IF ~check2(toks, cond.cur, "TOKEN_SEP", ")")
         THEN error(cond.cur, "Expected ')' after condition")
    ELSE Then(IF check2(toks, cond.cur + 1, "TOKEN_SEP", "{")
              THEN parseBlock(toks, cond.cur + 1)
              ELSE parseStmt(toks, cond.cur + 1),
              LAMBDA body :
                  IF ~body.ok THEN body
                  ELSE Ok(body.cur, TreeNode("NODE_WHILE", "", <<cond.node, body.node>>)))

parseWhileStmt(toks, cur) ==
    IF ~check2(toks, cur, "TOKEN_KEYWORD", "while") THEN error(cur, "Expected 'while'")
    ELSE IF ~check2(toks, cur + 1, "TOKEN_SEP", "(")
         THEN error(cur + 1, "Expected '(' after 'while'")
    ELSE Then(parseBoolExpr(toks, cur + 2), LAMBDA cond : whileRest(toks, cond))

\* parseForStmt, the initializer: a declaration, an assignment followed by
\* consume(";"), or nullptr and consume(";")
forInit(toks, cur) ==
    IF ~check2(toks, cur, "TOKEN_SEP", ";")
    THEN IF isTypeKeyword(toks, cur)
         THEN parseDecl(toks, cur)
         ELSE Then(parseAssignStmt(toks, cur, FALSE),
                   LAMBDA assign :
                       IF ~assign.ok THEN assign
                       ELSE IF check2(toks, assign.cur, "TOKEN_SEP", ";")
                            THEN Ok(assign.cur + 1, assign.node)
                            ELSE error(assign.cur, "Expected ';' after for initializer"))
    ELSE Ok(cur + 1, nullptr)

\* forCond with an empty node for an omitted condition
forCondEmptyNode(toks, cur) ==
    Then(IF ~check2(toks, cur, "TOKEN_SEP", ";")
         THEN parseBoolExpr(toks, cur)
         ELSE Ok(cur, TreeNode("NODE_BOOL", "", <<>>)),
         LAMBDA cond :
             IF ~cond.ok THEN cond
             ELSE IF check2(toks, cond.cur, "TOKEN_SEP", ";") THEN Ok(cond.cur + 1, cond.node)
             ELSE error(cond.cur, "Expected ';' after for condition"))

\* parseForStmt, the condition and consume(";")
forCond(toks, cur) ==
    Then(IF ~check2(toks, cur, "TOKEN_SEP", ";") THEN parseBoolExpr(toks, cur) ELSE Ok(cur, nullptr),
         LAMBDA cond :
             IF ~cond.ok THEN cond
             ELSE IF check2(toks, cond.cur, "TOKEN_SEP", ";") THEN Ok(cond.cur + 1, cond.node)
             ELSE error(cond.cur, "Expected ';' after for condition"))

\* parseForStmt, the update clause and consume(")")
forUpdate(toks, cur) ==
    Then(IF ~check2(toks, cur, "TOKEN_SEP", ")")
         THEN parseAssignStmt(toks, cur, TRUE)
         ELSE Ok(cur, nullptr),
         LAMBDA upd :
             IF ~upd.ok THEN upd
             ELSE IF check2(toks, upd.cur, "TOKEN_SEP", ")") THEN Ok(upd.cur + 1, upd.node)
             ELSE error(upd.cur, "Expected ')' after for update"))

\* parseForStmt, the body: a block, or one statement wrapped in a NODE_BLOCK
forBody(toks, cur) ==
    IF check2(toks, cur, "TOKEN_SEP", "{")
    THEN parseBlock(toks, cur)
    ELSE Then(parseStmt(toks, cur),
              LAMBDA stmt :
                  IF ~stmt.ok THEN stmt
                  ELSE Ok(stmt.cur, TreeNode("NODE_BLOCK", "", <<stmt.node>>)))

\* parseForStmt after the three clauses
forRest(toks, init, cond, upd) ==
    Then(forBody(toks, upd.cur),
         LAMBDA body :
             IF ~body.ok THEN body
             ELSE Ok(body.cur,
                     TreeNode("NODE_FOR", "", <<init.node, cond.node, upd.node, body.node>>)))

parseForStmt(toks, cur) ==
    IF ~check2(toks, cur, "TOKEN_KEYWORD", "for") THEN error(cur, "Expected 'for'")
    ELSE IF ~check2(toks, cur + 1, "TOKEN_SEP", "(") THEN error(cur + 1, "Expected '(' after 'for'")
    ELSE Then(forInit(toks, cur + 2),
              LAMBDA init :
                  IF ~init.ok THEN init
                  ELSE Then(forCond(toks, init.cur),
                            LAMBDA cond :
                                IF ~cond.ok THEN cond
                                ELSE Then(forUpdate(toks, cond.cur),
                                          LAMBDA upd :
                                              IF ~upd.ok THEN upd
                                              ELSE forRest(toks, init, cond, upd))))

\* do { consume(TOKEN_ID, message); children.push_back(ID) } while (match(TOKEN_SEP, ","));
idListLoop(toks, cur, ch, message) ==
    IF ~check(toks, cur, "TOKEN_ID") THEN error(cur, message)
    ELSE IF check2(toks, cur + 1, "TOKEN_SEP", ",")
         THEN idListLoop(toks, cur + 2,
                         Append(ch, TreeNode("NODE_ID", peek(toks, cur).value, <<>>)), message)
         ELSE Ok(cur + 1, Append(ch, TreeNode("NODE_ID", peek(toks, cur).value, <<>>)))

parseReadStmt(toks, cur) ==
    IF ~check2(toks, cur, "TOKEN_KEYWORD", "read") THEN error(cur, "Expected 'read'")
    ELSE IF ~check2(toks, cur + 1, "TOKEN_SEP", "(") THEN error(cur + 1, "Expected '(' after 'read'")
    ELSE Then(idListLoop(toks, cur + 2, <<>>, "Expected variable name in read statement"),
              LAMBDA ids :
                  IF ~ids.ok THEN ids
                  ELSE IF ~check2(toks, ids.cur, "TOKEN_SEP", ")")
                       THEN error(ids.cur, "Expected ')' after read arguments")
                  ELSE IF ~check2(toks, ids.cur + 1, "TOKEN_SEP", ";")
                       THEN error(ids.cur + 1, "Expected ';' after read statement")
                  ELSE Ok(ids.cur + 2, TreeNode("NODE_READ", "", ids.node)))

\* parseWriteStmt, the arguments: an identifier list in parentheses, or one identifier
writeArgs(toks, cur) ==
    IF check2(toks, cur, "TOKEN_SEP", "(")
    THEN Then(idListLoop(toks, cur + 1, <<>>, "Expected variable name in write statement"),
              LAMBDA ids :
                  IF ~ids.ok THEN ids
                  ELSE IF ~check2(toks, ids.cur, "TOKEN_SEP", ")")
                       THEN error(ids.cur, "Expected ')' after write arguments")
                       ELSE Ok(ids.cur + 1, ids.node))
    ELSE IF ~check(toks, cur, "TOKEN_ID")
         THEN error(cur, "Expected variable name in write statement")
         ELSE Ok(cur + 1, <<TreeNode("NODE_ID", peek(toks, cur).value, <<>>)>>)

parseWriteStmt(toks, cur) ==
    IF ~check2(toks, cur, "TOKEN_KEYWORD", "write") THEN error(cur, "Expected 'write'")
    ELSE Then(writeArgs(toks, cur + 1),
              LAMBDA args :
                  IF ~args.ok THEN args
                  ELSE IF ~check2(toks, args.cur, "TOKEN_SEP", ";")
                       THEN error(args.cur, "Expected ';' after write statement")
                  ELSE Ok(args.cur + 1, TreeNode("NODE_WRITE", "", args.node)))

\* parseStmt whose empty statement takes the token after the ";" as well
parseStmtSkip(toks, cur) ==
    IF check2(toks, cur, "TOKEN_SEP", "{") THEN parseBlock(toks, cur)
    ELSE IF check2(toks, cur, "TOKEN_KEYWORD", "if") THEN parseIfStmt(toks, cur)
    ELSE IF check2(toks, cur, "TOKEN_KEYWORD", "while") THEN parseWhileStmt(toks, cur)
    ELSE IF check2(toks, cur, "TOKEN_KEYWORD", "for") THEN parseForStmt(toks, cur)
    ELSE IF check2(toks, cur, "TOKEN_KEYWORD", "read") THEN parseReadStmt(toks, cur)
    ELSE IF check2(toks, cur, "TOKEN_KEYWORD", "write") THEN parseWriteStmt(toks, cur)
    ELSE IF check(toks, cur, "TOKEN_ID") THEN parseAssignStmt(toks, cur, FALSE)
    ELSE IF check2(toks, cur, "TOKEN_SEP", ";")
         THEN Ok(cur + 2, TreeNode("NODE_STMTS", "empty_stmt", <<>>))
    ELSE error(cur, "Expected statement but found")

parseStmt(toks, cur) ==
    IF check2(toks, cur, "TOKEN_SEP", "{") THEN parseBlock(toks, cur)
    ELSE IF check2(toks, cur, "TOKEN_KEYWORD", "if") THEN parseIfStmt(toks, cur)
    ELSE IF check2(toks, cur, "TOKEN_KEYWORD", "while") THEN parseWhileStmt(toks, cur)
    ELSE IF check2(toks, cur, "TOKEN_KEYWORD", "for") THEN parseForStmt(toks, cur)
    ELSE IF check2(toks, cur, "TOKEN_KEYWORD", "read") THEN parseReadStmt(toks, cur)
    ELSE IF check2(toks, cur, "TOKEN_KEYWORD", "write") THEN parseWriteStmt(toks, cur)
    ELSE IF check(toks, cur, "TOKEN_ID") THEN parseAssignStmt(toks, cur, FALSE)
    ELSE IF check2(toks, cur, "TOKEN_SEP", ";")
         THEN Ok(cur + 1, TreeNode("NODE_STMTS", "empty_stmt", <<>>))
    ELSE error(cur, "Expected statement but found")

(***************************************************************************)
(* Scanner: the Lexer class.  A string is a sequence of one-character      *)
(* strings; the cursor `pos` is 0-based as in the source, so source[pos]   *)
(* of the source is src[pos + 1] here.  A scanner state is the record of   *)
(* pos, line and column.                                                   *)
(***************************************************************************)
\* the character '\0' that peek() returns at the end of the source
NUL == "\\0"

\* isalpha, isdigit, isalnum and isspace of <cctype> in the "C" locale
Letters ==
    { "a", "b", "c", "d", "e", "f", "g", "h", "i", "j", "k", "l", "m",
      "n", "o", "p", "q", "r", "s", "t", "u", "v", "w", "x", "y", "z",
      "A", "B", "C", "D", "E", "F", "G", "H", "I", "J", "K", "L", "M",
      "N", "O", "P", "Q", "R", "S", "T", "U", "V", "W", "X", "Y", "Z" }

Digits == {"0", "1", "2", "3", "4", "5", "6", "7", "8", "9"}

isalpha(c) == c \in Letters

isdigit(c) == c \in Digits

isalnum(c) == c \in Letters \cup Digits

isspace(c) == c \in {" ", "\t", "\n", "\r", "\f"}

\* struct Token of the scanner
LexToken(type, value, ln, col) == [type |-> type, value |-> value, line |-> ln, column |-> col]

\* the keys of the table `keywords` with their kinds
keywords ==
    [k \in { <<"i", "n", "t">>, <<"f", "l", "o", "a", "t">>, <<"b", "o", "o", "l">>,
             <<"i", "f">>, <<"e", "l", "s", "e">>, <<"w", "h", "i", "l", "e">>,
             <<"f", "o", "r">>, <<"r", "e", "a", "d">>, <<"w", "r", "i", "t", "e">>,
             <<"t", "r", "u", "e">>, <<"f", "a", "l", "s", "e">> } |->
        IF k \in {<<"t", "r", "u", "e">>, <<"f", "a", "l", "s", "e">>}
        THEN "TOKEN_BOOL" ELSE "TOKEN_KEYWORD"]

\* the keys of the table `operators`
operators ==
    { <<"+">>, <<"-">>, <<"*">>, <<"/">>, <<"=">>, <<"&">>, <<"|">>,
      <<"+", "=">>, <<"-", "=">>, <<"*", "=">>, <<"/", "=">>, <<"=", "=">>, <<"!", "=">>,
      <<"<">>, <<"<", "=">>, <<">">>, <<">", "=">>, <<"&", "&">>, <<"|", "|">>,
      <<"!">>, <<"+", "+">>, <<"-", "-">> }

\* the keys of the table `separators`
separators ==
    {<<";">>, <<",">>, <<"(">>, <<")">>, <<"{">>, <<"}">>, <<"[", "]">>, <<"]">>, <<":">>}

\* the keys of the table `bit_operators`
bit_operators == {<<"&">>, <<"|">>, <<"~">>, <<"^">>, <<"<", "<">>, <<">", ">">>}

\* source[i] of a std::string: the character, or '\0' at i = length
charAt(src, i) == IF i < Len(src) THEN src[i + 1] ELSE NUL

LexState(p, ln, col) == [pos |-> p, line |-> ln, column |-> col]

lexPeek(src, st) == charAt(src, st.pos)

\* advance(): the cursor moves unless the source has ended; a newline starts
\* a line, every other character (the '\0' at the end too) counts a column
lexAdvance(src, st) ==
    IF lexPeek(src, st) = "\n"
    THEN LexState(st.pos + 1, st.line + 1, 1)
    ELSE LexState(IF st.pos < Len(src) THEN st.pos + 1 ELSE st.pos, st.line, st.column + 1)

RECURSIVE skipLineComment(_, _), skipBlockComment(_, _), skipWhitespace(_, _), takeWhile(_, _, _, _)

\* while (peek() != '\n' && peek() != '\0') advance();
skipLineComment(src, st) ==
    IF lexPeek(src, st) # "\n" /\ lexPeek(src, st) # NUL
    THEN skipLineComment(src, lexAdvance(src, st))
    ELSE st

\* skipBlockComment that takes the end of a line for the end of the comment
skipBlockCommentLine(src, st) ==
    IF lexPeek(src, st) = "*" /\ charAt(src, st.pos + 1) = "/"
    THEN [st |-> lexAdvance(src, lexAdvance(src, st)), closed |-> TRUE]
    ELSE IF lexPeek(src, st) = NUL THEN [st |-> st, closed |-> FALSE]
    ELSE IF lexPeek(src, st) = "\n" THEN [st |-> lexAdvance(src, st), closed |-> TRUE]
    ELSE skipBlockComment(src, lexAdvance(src, st))

\* the body of a block comment: up to and past "*/"; closed is FALSE when the
\* source ends first (skipWhitespace returns there)
skipBlockComment(src, st) ==
    IF lexPeek(src, st) = "*" /\ charAt(src, st.pos + 1) = "/"
    THEN [st |-> lexAdvance(src, lexAdvance(src, st)), closed |-> TRUE]
    ELSE IF lexPeek(src, st) = NUL THEN [st |-> st, closed |-> FALSE]
    ELSE skipBlockComment(src, lexAdvance(src, st))

skipWhitespace(src, st) ==
    IF lexPeek(src, st) = "#" \/ (lexPeek(src, st) = "/" /\ charAt(src, st.pos + 1) = "/")
    THEN skipWhitespace(src, skipLineComment(src, st))
    ELSE IF lexPeek(src, st) = "/" /\ charAt(src, st.pos + 1) = "*"
         THEN Then(skipBlockComment(src, lexAdvance(src, lexAdvance(src, st))),
                   LAMBDA b : IF b.closed THEN skipWhitespace(src, b.st) ELSE b.st)
    ELSE IF isspace(lexPeek(src, st)) THEN skipWhitespace(src, lexAdvance(src, st))
    ELSE st

\* to_string of a non-negative int
RECURSIVE to_string(_)
to_string(n) ==
    IF n < 10 THEN <<CHOOSE d \in Digits : d = ToString(n)>>
    ELSE Append(to_string(n \div 10), CHOOSE d \in Digits : d = ToString(n % 10))

\* return {type, value, line, column - value.length()};
makeToken(type, value, st) == LexToken(type, value, st.line, st.column - Len(value))

\* return {TOKEN_ERROR, msg + " at line " + to_string(line) + ":" + to_string(column),
\*         line, column};
makeError(msg, st) ==
    LexToken("TOKEN_ERROR",
             msg \o <<" ", "a", "t", " ", "l", "i", "n", "e", " ">> \o to_string(st.line)
                 \o <<":">> \o to_string(st.column),
             st.line, st.column)

\* the literals that start the three diagnostics; the text before the colon
\* is one element, the colon and the space after it are characters
IllegalIdentifier == <<"illegal identifier (starts with a digit)", ":", " ">>

IllegalNumberFormat == <<"illegal number format", ":", " ">>

UnrecognizedSymbol == <<"unrecognized symbol", ":", " ">>

IllegalCharacter == <<"illegal character", ":", " ">>

\* while (peek() in cs) value += advance();
takeWhile(src, st, cs, value) ==
    IF lexPeek(src, st) \in cs
    THEN takeWhile(src, lexAdvance(src, st), cs, Append(value, lexPeek(src, st)))
    ELSE [value |-> value, st |-> st]

\* a token and the scanner state after it
Scanned(tok, st) == [tok |-> tok, st |-> st]

recognizeIdOrKeyword(src, st) ==
    IF isdigit(lexPeek(src, st))
    THEN Then(takeWhile(src, st, Digits \cup Letters, <<>>),
              LAMBDA r : Scanned(makeError(IllegalIdentifier \o r.value, r.st), r.st))
    ELSE Then(takeWhile(src, st, Letters \cup Digits \cup {"_"}, <<>>),
              LAMBDA r :
                  IF r.value \in DOMAIN keywords
                  THEN Scanned(makeToken(keywords[r.value], r.value, r.st), r.st)
                  ELSE Scanned(makeToken("TOKEN_ID", r.value, r.st), r.st))

\* recognizeNumber, the state it carries: value, hasDecimalPoint, isError
Number(value, st, hasDecimalPoint, isError) ==
    [value |-> value, st |-> st, hasDecimalPoint |-> hasDecimalPoint, isError |-> isError]

\* while (isdigit(peek())) value += advance();
numDigits(src, n) ==
    Then(takeWhile(src, n.st, Digits, n.value),
         LAMBDA r : Number(r.value, r.st, n.hasDecimalPoint, n.isError))

\* value += advance();
numTake(src, n) ==
    Number(Append(n.value, lexPeek(src, n.st)), lexAdvance(src, n.st),
           n.hasDecimalPoint, n.isError)

\* if (peek() == '.') { ... }: the decimal point, the digits after it (their
\* absence is an error), a second decimal point and its digits (an error)
numFraction(src, n) ==
    IF lexPeek(src, n.st) # "." THEN n
    ELSE Then(numTake(src, n),
              LAMBDA dot :
                  Then(IF ~isdigit(lexPeek(src, dot.st))
                       THEN Number(dot.value, dot.st, TRUE, TRUE)
                       ELSE numDigits(src, Number(dot.value, dot.st, TRUE, dot.isError)),
                       LAMBDA frac :
                           IF lexPeek(src, frac.st) = "."
                           THEN numDigits(src, numTake(src, Number(frac.value, frac.st, TRUE, TRUE)))
                           ELSE frac))

\* numSuffix that leaves a trailing letter or underscore to the next token
numSuffixNone(src, n) == n

\* if (isalpha(peek()) || peek() == '_') { isError = true; while (isalnum ...) }
numSuffix(src, n) ==
    IF isalpha(lexPeek(src, n.st)) \/ lexPeek(src, n.st) = "_"
    THEN Then(takeWhile(src, n.st, Letters \cup Digits \cup {"_"}, n.value),
              LAMBDA r : Number(r.value, r.st, n.hasDecimalPoint, TRUE))
    ELSE n

\* recognizeNumber that skips one more character after an error
recognizeNumberSkip(src, st) ==
    Then(numSuffix(src, numFraction(src, numDigits(src, Number(<<>>, st, FALSE, FALSE)))),
         LAMBDA n :
             IF n.isError
             THEN Scanned(makeError(IllegalNumberFormat \o n.value, n.st), lexAdvance(src, n.st))
             ELSE Scanned(makeToken(IF n.hasDecimalPoint THEN "TOKEN_FLOAT" ELSE "TOKEN_NUM",
                                    n.value, n.st), n.st))

recognizeNumber(src, st) ==
    Then(numSuffix(src, numFraction(src, numDigits(src, Number(<<>>, st, FALSE, FALSE)))),
         LAMBDA n :
             IF n.isError
             THEN Scanned(makeError(IllegalNumberFormat \o n.value, n.st), n.st)
             ELSE Scanned(makeToken(IF n.hasDecimalPoint THEN "TOKEN_FLOAT" ELSE "TOKEN_NUM",
                                    n.value, n.st), n.st))

\* opOrSepRest without the lookahead for an operator of two characters
opOrSepSingle(src, value, st) ==
    IF value \in operators THEN Scanned(makeToken("TOKEN_OP", value, st), st)
    ELSE IF value \in bit_operators THEN Scanned(makeToken("TOKEN_BIT_OP", value, st), st)
    ELSE IF value \in separators THEN Scanned(makeToken("TOKEN_SEP", value, st), st)
    ELSE Scanned(makeError(UnrecognizedSymbol \o value, st), st)

\* recognizeOpOrSep after value += advance(): double_op = value + peek()
opOrSepRest(src, value, st) ==
    Then(Append(value, lexPeek(src, st)),
         LAMBDA double_op :
             IF double_op \in operators \/ double_op \in bit_operators
             THEN Then(lexAdvance(src, st),
                       LAMBDA st2 :
                           Scanned(makeToken(IF double_op \in operators
                                             THEN "TOKEN_OP" ELSE "TOKEN_BIT_OP",
                                             double_op, st2), st2))
             ELSE IF value \in operators THEN Scanned(makeToken("TOKEN_OP", value, st), st)
             ELSE IF value \in bit_operators THEN Scanned(makeToken("TOKEN_BIT_OP", value, st), st)
             ELSE IF value \in separators THEN Scanned(makeToken("TOKEN_SEP", value, st), st)
             ELSE Scanned(makeError(UnrecognizedSymbol \o value, st), st))

recognizeOpOrSep(src, st) == opOrSepRest(src, <<lexPeek(src, st)>>, lexAdvance(src, st))

\* return {TOKEN_ERROR, ""}: line and column are value-initialized
EndSentinel == LexToken("TOKEN_ERROR", <<>>, 0, 0)

\* dispatch that counts a column for the end of the source
dispatchEndAdvance(src, st) ==
    Then(lexPeek(src, st),
         LAMBDA ch :
             IF isalpha(ch) \/ ch = "_" THEN recognizeIdOrKeyword(src, st)
             ELSE IF isdigit(ch) THEN recognizeNumber(src, st)
             ELSE IF <<ch>> \in operators \/ <<ch>> \in separators THEN recognizeOpOrSep(src, st)
             ELSE IF ch = NUL THEN Scanned(EndSentinel, lexAdvance(src, st))
             ELSE Scanned(LexToken("TOKEN_ERROR", IllegalCharacter \o <<ch>>, 0, 0),
                          lexAdvance(src, st)))

\* getNextToken after skipWhitespace()
dispatch(src, st) ==
    Then(lexPeek(src, st),
         LAMBDA ch :
             IF isalpha(ch) \/ ch = "_" THEN recognizeIdOrKeyword(src, st)
             ELSE IF isdigit(ch) THEN recognizeNumber(src, st)
             ELSE IF <<ch>> \in operators \/ <<ch>> \in separators THEN recognizeOpOrSep(src, st)
             ELSE IF ch = NUL THEN Scanned(EndSentinel, st)
             ELSE Scanned(LexToken("TOKEN_ERROR", IllegalCharacter \o <<ch>>, 0, 0),
                          lexAdvance(src, st)))

getNextToken(src, st) == dispatch(src, skipWhitespace(src, st))

\* enum TokenType of the scanner: the value operator<< prints
TokenTypeCode(type) ==
    CASE type = "TOKEN_ID" -> 0
      [] type = "TOKEN_NUM" -> 1
      [] type = "TOKEN_FLOAT" -> 2
      [] type = "TOKEN_BOOL" -> 3
      [] type = "TOKEN_KEYWORD" -> 4
      [] type = "TOKEN_OP" -> 5
      [] type = "TOKEN_SEP" -> 6
      [] type = "TOKEN_BIT_OP" -> 7
      [] type = "TOKEN_ERROR" -> 8

\* outFile << "(" << token.type << ", \"" << token.value << "\", "
\*         << token.line << ", " << token.column << ")\n";  without the "\n"
writeRecord(tok) ==
    <<"(">> \o to_string(TokenTypeCode(tok.type)) \o <<",", " ", "\"">> \o tok.value
        \o <<"\"", ",", " ">> \o to_string(tok.line) \o <<",", " ">> \o to_string(tok.column)
        \o <<")">>

\* std::string::find and rfind of a character: the 0-based index, or -1 for npos
find(s, c) ==
    IF \E i \in 1..Len(s) : s[i] = c
    THEN (CHOOSE i \in 1..Len(s) : s[i] = c /\ \A j \in 1..(i - 1) : s[j] # c) - 1
    ELSE -1

rfind(s, c) ==
    IF \E i \in 1..Len(s) : s[i] = c
    THEN (CHOOSE i \in 1..Len(s) : s[i] = c /\ \A j \in (i + 1)..Len(s) : s[j] # c) - 1
    ELSE -1

\* std::string::substr(start, count) for start <= length; a count that is
\* negative as an int is a huge size_t: the rest of the string
substr(s, start, count) ==
    SubSeq(s, start + 1, IF count < 0 \/ start + count > Len(s) THEN Len(s) ELSE start + count)

\* value.erase(remove_if(value.begin(), value.end(), ::isspace), value.end());
eraseSpaces(s) == SelectSeq(s, LAMBDA c : ~isspace(c))

\* the chain of comparisons of typeStr in readTokens
readType(typeStr) ==
    IF typeStr = <<"0">> THEN "TOKEN_ID"
    ELSE IF typeStr = <<"1">> THEN "TOKEN_NUM"
    ELSE IF typeStr = <<"2">> THEN "TOKEN_FLOAT"
    ELSE IF typeStr = <<"3">> THEN "TOKEN_BOOL"
    ELSE IF typeStr = <<"4">> THEN "TOKEN_KEYWORD"
    ELSE IF typeStr = <<"5">> THEN "TOKEN_OP"
    ELSE IF typeStr = <<"6">> THEN "TOKEN_SEP"
    ELSE "TOKEN_ERROR"

\* the lines readTokens skips
skipsLine(ln) == ln = <<>> \/ find(ln, "(") = -1 \/ find(ln, ")") = -1 \/ find(ln, ",") = -1

\* one line of the file as readTokens takes it apart
readRecord(ln) ==
    LET typeStart == find(ln, "(") + 1
        typeEnd == find(ln, ",")
        end == rfind(ln, ")")
    IN  Token(readType(substr(ln, typeStart, typeEnd - typeStart)),
              eraseSpaces(eraseSpaces(substr(ln, typeEnd + 1, end - typeEnd - 1))))

RECURSIVE readLines(_, _)
readLines(lines, toks) ==
    IF lines = <<>> THEN toks
    ELSE readLines(Tail(lines),
                   IF skipsLine(Head(lines)) THEN toks ELSE Append(toks, readRecord(Head(lines))))

readTokens(lines) == readLines(lines, <<>>)

(***************************************************************************)
(* Inputs: bounded sets of token sequences                                 *)
(***************************************************************************)
MaxExprLen == 4

MaxOps == 3

MaxParenLen == 7

MaxBlockStmts == 1

ID(v) == Token("TOKEN_ID", v)

NUM(v) == Token("TOKEN_NUM", v)

BOOLLIT(v) == Token("TOKEN_BOOL", v)

OP(v) == Token("TOKEN_OP", v)

SEP(v) == Token("TOKEN_SEP", v)

KW(v) == Token("TOKEN_KEYWORD", v)

\* every token sequence of at most n tokens of the alphabet
RECURSIVE SeqsUpTo(_, _)
SeqsUpTo(alphabet, n) ==
    IF n = 0 THEN {<<>>}
    ELSE LET shorter == SeqsUpTo(alphabet, n - 1)
         IN  shorter \cup {Append(s, t) : s \in {x \in shorter : Len(x) = n - 1}, t \in alphabet}

ExprAlphabet ==
    {ID("a"), NUM("1"), OP("+"), OP("-"), OP("*"), OP("<"), OP("!"), SEP("("), SEP(")")}

\* the binary operators of the precedence table
BinaryOps == {"||", "&&", "==", "!=", "<", "<=", ">", ">=", "+", "-", "*", "/", "%"}

\* operand k of an expression: the integer literal k
Operand(k) == NUM(ToString(k))

\* 1 op 2 op 3 ...: operands and binary operators in alternation, k operators
RECURSIVE FlatInfix(_)
FlatInfix(k) ==
    IF k = 0 THEN {<<Operand(1)>>}
    ELSE {s \o <<OP(o), Operand(k + 1)>> : s \in FlatInfix(k - 1), o \in BinaryOps}

FlatExprs == UNION {FlatInfix(k) : k \in 0..MaxOps}

ParenOps == {"+", "-", "*"}

\* infix expressions with balanced parentheses, at most n tokens
RECURSIVE ParenShapes(_)
ParenShapes(n) ==
    IF n <= 0 THEN {}
    ELSE LET sub == ParenShapes(n - 2)
         IN  {<<Operand(0)>>}
             \cup {<<SEP("(")>> \o e \o <<SEP(")")>> : e \in sub}
             \cup {x \in {l \o <<OP(o)>> \o r : l \in sub, o \in ParenOps, r \in sub} : Len(x) <= n}

isOperand(t) == t.type \in {"TOKEN_ID", "TOKEN_NUM", "TOKEN_FLOAT", "TOKEN_BOOL"}

\* the number of operand tokens among the first n tokens
RECURSIVE OperandCount(_, _)
OperandCount(s, n) ==
    IF n = 0 THEN 0 ELSE OperandCount(s, n - 1) + (IF isOperand(s[n]) THEN 1 ELSE 0)

\* the k-th operand becomes the literal k
Renumber(s) == [i \in 1..Len(s) |-> IF isOperand(s[i]) THEN Operand(OperandCount(s, i)) ELSE s[i]]

ParenExprs == {Renumber(s) : s \in ParenShapes(MaxParenLen)}

\* the expressions the specification names
SpecExprs ==
    { <<OP("-"), NUM("1"), OP("+"), NUM("2")>>,
      <<NUM("1"), OP("-"), NUM("2")>>,
      <<SEP("("), NUM("1"), OP("-"), NUM("2"), SEP(")")>>,
      <<SEP("("), NUM("1"), OP("+"), NUM("2"), SEP(")"), OP("*"), NUM("3")>>,
      <<ID("x"), OP("<"), ID("y")>>,
      <<OP("!"), OP("!"), ID("b")>>,
      <<NUM("1"), NUM("2")>>,
      <<NUM("1"), NUM("2"), OP("+")>>,
      <<OP("+"), NUM("1"), NUM("2")>>,
      <<ID("b"), OP("="), ID("c")>>,
      <<ID("b"), OP("&"), ID("c")>> }

ExprSeqs == SeqsUpTo(ExprAlphabet, MaxExprLen) \cup FlatExprs \cup ParenExprs \cup SpecExprs

\* an expression as the engine meets it: followed by the ";" of its statement
ExprInputs == {e \o <<SEP(";")>> : e \in ExprSeqs}

AssignPrograms == {<<ID("a"), OP("=")>> \o e : e \in ExprInputs}

\* expressions followed by each token the engine stops at, by a ")", by
\* tokens that are no part of an expression, and by nothing
TerminatedExprs ==
    {e \o t :
        e \in { <<>>, <<NUM("1")>>, <<NUM("1"), OP("+"), NUM("2")>>,
                 <<SEP("("), NUM("1"), SEP(")")>>, <<NUM("1"), OP("+")>> },
        t \in { <<>>, <<SEP(",")>>, <<SEP("{")>>, <<KW("else")>>, <<KW("then")>>, <<KW("do")>>,
                 <<SEP(")")>>, <<SEP(")"), SEP(";")>>, <<SEP("}")>>, <<KW("if")>> }}

RelationalOps == {"==", "!=", "<", "<=", ">", ">="}

CondOperands == {ID("x"), NUM("1"), BOOLLIT("true")}

\* well-formed conditions: one operand, or two operands around a comparison
Conds ==
    {<<x>> : x \in CondOperands}
    \cup {<<x, OP(r), y>> : x \in CondOperands, r \in RelationalOps, y \in CondOperands}

\* well-formed statements without sub-statements
SimpleStmts ==
    { <<ID("a"), OP("="), NUM("1"), SEP(";")>>,
      <<ID("a"), OP("++"), SEP(";")>>,
      <<SEP(";")>>,
      <<KW("write"), ID("a"), SEP(";")>> }

\* stmt*: at most n simple statements in a row
RECURSIVE StmtLists(_)
StmtLists(n) ==
    IF n = 0 THEN {<<>>}
    ELSE LET shorter == StmtLists(n - 1)
         IN  shorter \cup {l \o st : l \in shorter, st \in SimpleStmts}

Braced(body) == <<SEP("{")>> \o body \o <<SEP("}")>>

IfHead(c) == <<KW("if"), SEP("(")>> \o c \o <<SEP(")")>>

\* if ( boolExpr ) { stmt* }
IfNoElsePrograms ==
    {IfHead(c) \o Braced(t) : c \in Conds, t \in StmtLists(MaxBlockStmts)}

\* if ( boolExpr ) { stmt* } else { stmt* }
IfElsePrograms ==
    {IfHead(c) \o Braced(t) \o <<KW("else")>> \o Braced(e) :
        c \in Conds, t \in StmtLists(MaxBlockStmts), e \in StmtLists(MaxBlockStmts)}

\* while ( boolExpr ) body, the body a block or one statement
WhilePrograms ==
    {<<KW("while"), SEP("(")>> \o c \o <<SEP(")")>> \o b :
        c \in Conds,
        b \in {Braced(l) : l \in StmtLists(MaxBlockStmts)} \cup SimpleStmts}

\* the seven assignment forms, without a terminator
AssignForms ==
    {<<ID("i"), OP(o), NUM("1")>> : o \in {"=", "+=", "-=", "*=", "/="}}
    \cup {<<ID("i"), OP("="), ID("i"), OP("+"), NUM("1")>>}
    \cup {<<ID("i"), OP(o)>> : o \in {"++", "--"}}

\* init clauses with their ";": absent, an assignment, a declaration
ForInits ==
    { <<SEP(";")>>,
      <<ID("i"), OP("="), NUM("0"), SEP(";")>>,
      <<KW("int"), ID("i"), OP("="), NUM("0"), SEP(";")>> }

ForConds == {<<>>, <<ID("i"), OP("<"), ID("n")>>, <<BOOLLIT("true")>>}

ForUpdates == {<<>>} \cup AssignForms

ForBodies == {Braced(l) : l \in StmtLists(MaxBlockStmts)} \cup {<<SEP(";")>>}

ForProgram(i, c, u, b) ==
    <<KW("for"), SEP("(")>> \o i \o c \o <<SEP(";")>> \o u \o <<SEP(")")>> \o b

ForPrograms ==
    {ForProgram(i, c, u, b) : i \in ForInits, c \in ForConds, u \in ForUpdates, b \in ForBodies}

\* declarations with an initializer, and assignments of a condition
DeclPrograms ==
    {<<KW("bool"), ID("b"), OP("=")>> \o c \o <<SEP(";")>> : c \in Conds}
    \cup {<<KW("int"), ID("n"), OP("=")>> \o c \o <<SEP(";")>> : c \in Conds}
    \cup {<<KW("int"), ID("n"), SEP(","), ID("m"), SEP(";")>>}
    \cup {<<KW("int"), ID("n"), SEP(";")>> \o st : st \in SimpleStmts}

CondAssignPrograms == {<<ID("a"), OP("=")>> \o c \o <<SEP(";")>> : c \in Conds}

\* an identifier in statement position followed by an operator and an
\* operand, by an operand, or by nothing
OperatorStmtPrograms ==
    {<<ID("a"), OP(o), NUM("1"), SEP(";")>> : o \in BinaryOps \cup {"=", "+=", "-=", "*=", "/="}}
    \cup {<<ID("a"), OP(o), SEP(";")>> : o \in {"++", "--"}}
    \cup {<<ID("a"), SEP(";")>>, <<ID("a"), NUM("1"), SEP(";")>>}

\* statements around a "}" that closes no block
StrayBracePrograms ==
    {s \o <<SEP("}")>> \o t : s \in StmtLists(MaxBlockStmts), t \in StmtLists(MaxBlockStmts)}

\* declarations with no identifier before a ";"
EmptyDeclPrograms ==
    { <<KW("int"), SEP(";"), SEP(";")>>,
      <<KW("int"), SEP(";")>>,
      <<KW("int"), ID("n"), SEP(","), SEP(";"), SEP(";")>>,
      <<KW("int"), ID("n"), SEP(","), SEP(";")>>,
      <<KW("int"), ID("n"), SEP(";"), KW("float"), ID("x"), OP("="), NUM("1"), SEP(","),
        ID("y"), SEP(";")>> }

\* programs that stop in the middle of a construct
CutBases ==
    { <<KW("int"), ID("n"), OP("="), NUM("1"), SEP(","), ID("m"), SEP(";"),
        KW("for"), SEP("("), ID("i"), OP("="), NUM("0"), SEP(";"), ID("i"), OP("<"), ID("n"), SEP(";"),
        ID("i"), OP("++"), SEP(")"), SEP("{"), KW("write"), ID("i"), SEP(","), ID("n"), SEP(";"), SEP("}")>>,
      <<KW("if"), SEP("("), ID("x"), SEP(")"), SEP("{"), KW("read"), ID("x"), SEP(";"), SEP("}"),
        KW("else"), SEP("{"), SEP("{"), ID("a"), OP("="), SEP("("), NUM("1"), OP("+"), NUM("2"), SEP(")"),
        SEP(";"), SEP("}"), SEP("}")>> }

CutPrograms == UNION {{SubSeq(p, 1, k) : k \in 0..Len(p)} : p \in CutBases}

\* programs that hold the token peek() returns at the end of the input
EndTokenPrograms ==
    { <<ID("a"), OP("="), NUM("1"), SEP(";"), Token("TOKEN_ERROR", ""), ID("a"), OP("="), NUM("1"), SEP(";")>>,
      <<KW("int"), Token("TOKEN_ERROR", ""), ID("n"), SEP(";")>>,
      <<ID("a"), OP("="), NUM("1"), OP("+"), Token("TOKEN_ERROR", ""), NUM("2"), SEP(";")>>,
      <<SEP("{"), ID("a"), OP("="), NUM("1"), SEP(";"), Token("TOKEN_ERROR", ""), SEP("}")>> }

Programs ==
    AssignPrograms \cup IfNoElsePrograms \cup IfElsePrograms \cup WhilePrograms
    \cup ForPrograms \cup DeclPrograms \cup CondAssignPrograms
    \cup OperatorStmtPrograms \cup StrayBracePrograms \cup EmptyDeclPrograms
    \cup CutPrograms \cup EndTokenPrograms

MaxSrcLen == 3

MaxPieces == 3

\* the characters of the bounded sources: a letter, a digit, the characters
\* of numbers and identifiers, white space, the characters of comments,
\* operators of one and two characters, a bitwise operator, a separator and a
\* character of no table
LexAlphabet ==
    {"a", "1", ".", "_", " ", "\n", "/", "*", "#", "~", "=", "<", ";", "&", "@"}

\* lexemes, white space and comments to build longer sources from
LexPieces ==
    { <<"i", "n", "t">>, <<"t", "r", "u", "e">>, <<"x">>, <<"1", "2">>, <<"1", ".", "5">>,
      <<"1", "2", "a", "b", "c">>, <<"1", ".", "2", ".", "3">>,
      <<"<", "<">>, <<"+", "=">>, <<"/">>, <<"^">>, <<"[">>, <<"]">>, <<";">>,
      <<" ">>, <<"\n">>, <<"/", "*", "c", "\n", "*", "/">>, <<"/", "/", "c", "\n">>,
      <<"#", "c", "\n">>, <<"/", "*">> }

\* the concatenations of at most n pieces
RECURSIVE PieceSeqs(_)
PieceSeqs(n) ==
    IF n = 0 THEN {<<>>}
    ELSE LET shorter == PieceSeqs(n - 1)
         IN  shorter \cup {s \o p : s \in shorter, p \in LexPieces}

\* the characters the operators of two characters are made of
OperatorChars == {"+", "-", "*", "/", "=", "!", "<", ">", "&", "|"}

\* runs of two and three operator characters
OperatorSources ==
    {<<a, b>> : a \in OperatorChars, b \in OperatorChars}
    \cup {<<a, b, c>> : a \in OperatorChars, b \in OperatorChars, c \in OperatorChars}

Sources == SeqsUpTo(LexAlphabet, MaxSrcLen) \cup PieceSeqs(MaxPieces) \cup OperatorSources

(***************************************************************************)
(* Parser::parse, one step per call of parse's body: parseDecls, every     *)
(* iteration of the loop of parseStmts, the return                         *)
(***************************************************************************)
\* no scanner runs
LexIdle ==
    /\ source = <<>>
    /\ pos = 0
    /\ line = 1
    /\ column = 1
    /\ scanned = <<>>
    /\ lexOut = <<>>

NoResult == [ok |-> FALSE, cur |-> 0, node |-> nullptr, msg |-> "none"]

Init ==
    /\ tokens \in Programs
    /\ current = 0
    /\ nodeStack = <<>>
    /\ opStack = <<>>
    /\ programNode = TreeNode("NODE_BLOCK", "", <<>>)
    /\ stmtsNode = TreeNode("NODE_STMTS", "", <<>>)
    /\ pc = "parseDecls"
    /\ result = NoResult
    /\ LexIdle

\* error(): the diagnostic and exit(1)
Abort(r) ==
    /\ pc' = "error"
    /\ result' = r
    /\ current' = r.cur

\* programNode->children.push_back(parseDecls());
ParseDecls ==
    /\ pc = "parseDecls"
    /\ \E r \in {parseDecls(tokens, current)} :
           IF r.ok
           THEN /\ programNode' = [programNode EXCEPT !.children = Append(@, r.node)]
                /\ current' = r.cur
                /\ pc' = "parseStmts"
                /\ UNCHANGED result
           ELSE Abort(r) /\ UNCHANGED programNode
    /\ UNCHANGED <<tokens, nodeStack, opStack, stmtsNode, lexVars>>

\* parseStmts: while (!isAtEnd() && !check(TOKEN_SEP, "}"))
stmtsLoopCond(toks, cur) == ~isAtEnd(toks, cur) /\ ~check2(toks, cur, "TOKEN_SEP", "}")

\* parseStmts: one iteration of the loop
ParseStmtsStep ==
    /\ pc = "parseStmts"
    /\ stmtsLoopCond(tokens, current)
    /\ \E r \in {parseStmt(tokens, current)} :
           IF r.ok
           THEN /\ stmtsNode' = [stmtsNode EXCEPT !.children = Append(@, r.node)]
                /\ current' = r.cur
                /\ UNCHANGED <<pc, result>>
           ELSE Abort(r) /\ UNCHANGED stmtsNode
    /\ UNCHANGED <<tokens, nodeStack, opStack, programNode, lexVars>>

\* parseStmts returns; programNode->children.push_back(...); return programNode;
ParseReturn ==
    /\ pc = "parseStmts"
    /\ ~stmtsLoopCond(tokens, current)
    /\ programNode' = [programNode EXCEPT !.children = Append(@, stmtsNode)]
    /\ result' = Ok(current, programNode')
    /\ pc' = "done"
    /\ UNCHANGED <<tokens, current, nodeStack, opStack, stmtsNode, lexVars>>

Next == ParseDecls \/ ParseStmtsStep \/ ParseReturn

Spec == Init /\ [][Next]_vars

(***************************************************************************)
(* parseArithmeticExpr alone, one step per iteration of its main loop      *)
(***************************************************************************)
InitExpr ==
    /\ tokens \in ExprInputs \cup TerminatedExprs
    /\ current = 0
    /\ nodeStack = <<>>
    /\ opStack = <<>>
    /\ programNode = TreeNode("NODE_BLOCK", "", <<>>)
    /\ stmtsNode = TreeNode("NODE_STMTS", "", <<>>)
    /\ pc = "exprEntry"
    /\ result = NoResult
    /\ LexIdle

engine == Engine(current, nodeStack, opStack, "")

\* the engine state after a step, or the error() that ended the run
ExprMove(e) ==
    /\ current' = e.cur
    /\ nodeStack' = e.nodeStack
    /\ opStack' = e.opStack
    /\ IF e.err = ""
       THEN UNCHANGED <<pc, result>>
       ELSE pc' = "error" /\ result' = error(e.cur, e.err)
    /\ UNCHANGED <<tokens, programNode, stmtsNode, lexVars>>

\* if (check(TOKEN_SEP, ";")) error("Empty expression not allowed here");
ExprEnter ==
    /\ pc = "exprEntry"
    /\ IF check2(tokens, current, "TOKEN_SEP", ";")
       THEN pc' = "error" /\ result' = error(current, "Empty expression not allowed here")
       ELSE pc' = "exprLoop" /\ UNCHANGED result
    /\ UNCHANGED <<tokens, current, nodeStack, opStack, programNode, stmtsNode, lexVars>>

ExprLParen ==
    /\ pc = "exprLoop"
    /\ exprLoopCond(tokens, current)
    /\ check2(tokens, current, "TOKEN_SEP", "(")
    /\ ExprMove(lparenBranch(engine))

ExprRParen ==
    /\ pc = "exprLoop"
    /\ exprLoopCond(tokens, current)
    /\ ~check2(tokens, current, "TOKEN_SEP", "(")
    /\ check2(tokens, current, "TOKEN_SEP", ")")
    /\ ExprMove(rparenBranch(engine))

ExprOperator ==
    /\ pc = "exprLoop"
    /\ exprLoopCond(tokens, current)
    /\ ~check2(tokens, current, "TOKEN_SEP", "(")
    /\ ~check2(tokens, current, "TOKEN_SEP", ")")
    /\ check(tokens, current, "TOKEN_OP")
    /\ ExprMove(operatorBranch(tokens, engine))

ExprOperand ==
    /\ pc = "exprLoop"
    /\ exprLoopCond(tokens, current)
    /\ ~check2(tokens, current, "TOKEN_SEP", "(")
    /\ ~check2(tokens, current, "TOKEN_SEP", ")")
    /\ ~check(tokens, current, "TOKEN_OP")
    /\ ExprMove(operandBranch(tokens, engine))

\* the loop has ended: drain the operators, check the operand stack, return
ExprReturn ==
    /\ pc = "exprLoop"
    /\ ~exprLoopCond(tokens, current)
    /\ \E e \in {exprDrain(engine)} : \E r \in {exprFinish(e)} :
           /\ nodeStack' = e.nodeStack
           /\ opStack' = e.opStack
           /\ result' = r
           /\ pc' = IF r.ok THEN "done" ELSE "error"
    /\ UNCHANGED <<tokens, current, programNode, stmtsNode, lexVars>>

NextExpr == ExprEnter \/ ExprLParen \/ ExprRParen \/ ExprOperator \/ ExprOperand \/ ExprReturn

SpecExpr == InitExpr /\ [][NextExpr]_vars

(***************************************************************************)
(* The scanner's main, one step per iteration of its loop, and readTokens  *)
(* of the parser's main on the file it wrote                               *)
(***************************************************************************)
InitLex ==
    /\ source \in Sources
    /\ pos = 0
    /\ line = 1
    /\ column = 1
    /\ scanned = <<>>
    /\ lexOut = <<>>
    /\ tokens = <<>>
    /\ current = 0
    /\ nodeStack = <<>>
    /\ opStack = <<>>
    /\ programNode = TreeNode("NODE_BLOCK", "", <<>>)
    /\ stmtsNode = TreeNode("NODE_STMTS", "", <<>>)
    /\ pc = "lex"
    /\ result = NoResult

lexState == LexState(pos, line, column)

\* if (token.type == TOKEN_ERROR && token.value.empty()) break;
isEndSentinel(tok) == tok.type = "TOKEN_ERROR" /\ tok.value = <<>>

\* the scanner moves to state st
LexMove(st) ==
    /\ pos' = st.pos
    /\ line' = st.line
    /\ column' = st.column

\* Token token = lexer.getNextToken(); ... outFile << the record of token
LexStep ==
    /\ pc = "lex"
    /\ \E r \in {getNextToken(source, lexState)} :
           /\ ~isEndSentinel(r.tok)
           /\ LexMove(r.st)
           /\ scanned' = Append(scanned, r.tok)
           /\ lexOut' = Append(lexOut, writeRecord(r.tok))
    /\ UNCHANGED <<source, pc, tokens, current, nodeStack, opStack, programNode, stmtsNode, result>>

\* getNextToken returns the end sentinel: break; outFile.close();
LexEnd ==
    /\ pc = "lex"
    /\ \E r \in {getNextToken(source, lexState)} :
           /\ isEndSentinel(r.tok)
           /\ LexMove(r.st)
    /\ pc' = "lexed"
    /\ UNCHANGED <<source, scanned, lexOut, tokens, current, nodeStack, opStack, programNode,
                   stmtsNode, result>>

\* vector<Token> tokens = readTokens("lex_out.txt");
ReadTokens ==
    /\ pc = "lexed"
    /\ tokens' = readTokens(lexOut)
    /\ pc' = "read"
    /\ UNCHANGED <<lexVars, current, nodeStack, opStack, programNode, stmtsNode, result>>

NextLex == LexStep \/ LexEnd \/ ReadTokens

SpecLex == InitLex /\ [][NextLex]_vars

(***************************************************************************)
(* Properties                                                              *)
(***************************************************************************)
\* the run has ended: parse returned, or error() was called
Finished == pc \in {"done", "error"}

\* the only statement of a returned one-statement program
OnlyStmt == stmtsNode.children[1]

IfPrograms == IfNoElsePrograms \cup IfElsePrograms

\* C1: every well-formed `if ( boolExpr ) { stmt* }`, with or without
\* `else { stmt* }`, parses without a fatal error, and the statement list holds
\* an If node with 2 children when there is no else and 3 when there is one.
C1_IfParsesToIfNode ==
    (tokens \in IfPrograms /\ Finished) =>
        /\ pc = "done"
        /\ Len(stmtsNode.children) = 1
        /\ OnlyStmt.type = "NODE_IF"
        /\ Len(OnlyStmt.children) = (IF tokens \in IfElsePrograms THEN 3 ELSE 2)

\* C2: every well-formed `while ( boolExpr ) body` parses without a fatal
\* error into a While node with exactly 2 children (condition, body).
C2_WhileParsesToWhileNode ==
    (tokens \in WhilePrograms /\ Finished) =>
        /\ pc = "done"
        /\ Len(stmtsNode.children) = 1
        /\ OnlyStmt.type = "NODE_WHILE"
        /\ Len(OnlyStmt.children) = 2

Leaf(t) == TreeNode(operandNodeType(t.type), t.value, <<>>)

Assign(target, rhs) ==
    TreeNode("NODE_ASSIGN", "=", <<Leaf(ID(target)), TreeNode("NODE_EXPR", "", <<rhs>>)>>)

Op1(op, x) == TreeNode("NODE_OP", op, <<x>>)

Op2(op, l, r) == TreeNode("NODE_OP", op, <<l, r>>)

AssignProgram(e) == <<ID("a"), OP("=")>> \o e \o <<SEP(";")>>

\* every node of a tree
RECURSIVE Subtrees(_)
Subtrees(n) == {n} \cup UNION {Subtrees(n.children[i]) : i \in 1..Len(n.children)}

\* C3: a `-` met while the operand stack is empty is the unary `neg`, reduced
\* with exactly one operand into a 1-child node: `a = -1 + 2;` is accepted and
\* yields Op(+, Op(neg, 1), 2), and `a = 1 - 2;` yields Op(-, 1, 2).
C3_LeadingMinusIsUnaryNeg ==
    /\ (tokens = AssignProgram(<<OP("-"), NUM("1"), OP("+"), NUM("2")>>) /\ Finished) =>
          /\ pc = "done"
          /\ stmtsNode.children =
                <<Assign("a", Op2("+", Op1("neg", Leaf(NUM("1"))), Leaf(NUM("2"))))>>
    /\ (tokens = AssignProgram(<<NUM("1"), OP("-"), NUM("2")>>) /\ Finished) =>
          /\ pc = "done"
          /\ stmtsNode.children = <<Assign("a", Op2("-", Leaf(NUM("1")), Leaf(NUM("2"))))>>
    /\ (tokens \in AssignPrograms /\ tokens[3] = OP("-") /\ pc = "done") =>
          \A n \in Subtrees(OnlyStmt) :
              (n.type = "NODE_OP" /\ n.value = "neg") => Len(n.children) = 1

AssignInit == <<ID("i"), OP("="), NUM("0"), SEP(";")>>

\* for statements with an assignment as init clause and an update clause
\* that is absent or an increment/decrement
ForAssignInitPrograms ==
    {ForProgram(AssignInit, c, u, b) :
        c \in ForConds, u \in {<<>>, <<ID("i"), OP("++")>>, <<ID("i"), OP("--")>>}, b \in ForBodies}

\* C4: the `;` that ends an assignment init clause is consumed exactly once:
\* `for (i = 0; i < n; i++) { }` parses into a For node whose first slot is
\* the Assignment, without a second `;` after the assignment.
C4_ForInitSemicolonOnce ==
    (tokens \in ForAssignInitPrograms /\ Finished) =>
        /\ pc = "done"
        /\ OnlyStmt.type = "NODE_FOR"
        /\ OnlyStmt.children[1].type = "NODE_ASSIGN"

\* for statements with no init clause and an update clause
ForUpdatePrograms ==
    {ForProgram(<<SEP(";")>>, c, u, b) : c \in ForConds, u \in AssignForms, b \in ForBodies}

\* C5: the update clause accepts every assignment form (=, +=, -=, *=, /=,
\* ++, --): no `;` is consumed, the `)` of the header is left to parseForStmt,
\* and the parse succeeds with the Assignment in the third slot.
C5_ForUpdateAcceptsEveryAssignment ==
    (tokens \in ForUpdatePrograms /\ Finished) =>
        /\ pc = "done"
        /\ OnlyStmt.type = "NODE_FOR"
        /\ Len(OnlyStmt.children) = 4
        /\ OnlyStmt.children[3].type = "NODE_ASSIGN"

\* the precedence levels of the specification, low to high: || < && <
\* comparisons < additive < multiplicative (% stands with * and /)
SpecLevel(op) ==
    CASE op = "||" -> 1
      [] op = "&&" -> 2
      [] op \in RelationalOps -> 3
      [] op \in {"+", "-"} -> 4
      [] OTHER -> 5

\* the tree of an alternation of operands and binary operators: the operator
\* applied last is the rightmost one of the lowest level
RECURSIVE RefTree(_)
RefTree(s) ==
    IF Len(s) = 1 THEN Leaf(s[1])
    ELSE LET ops == {i \in 1..Len(s) : s[i].type = "TOKEN_OP"}
             low == CHOOSE l \in {SpecLevel(s[i].value) : i \in ops} :
                        \A i \in ops : SpecLevel(s[i].value) >= l
             k == CHOOSE i \in ops :
                      /\ SpecLevel(s[i].value) = low
                      /\ \A j \in ops : SpecLevel(s[j].value) = low => j <= i
         IN  Op2(s[k].value, RefTree(SubSeq(s, 1, k - 1)), RefTree(SubSeq(s, k + 1, Len(s))))

FlatPrograms == {AssignProgram(e) : e \in FlatExprs}

\* the right-hand side of the program `a = e ;`
Rhs(toks) == SubSeq(toks, 3, Len(toks) - 1)

\* C6: for a right-hand side of operands and binary operators of the
\* precedence table in alternation, the parse succeeds and the tree is the one
\* in which a higher precedence binds tighter and equal precedences group to
\* the left, children in (left, right) order: `a = 1 + 2 * 3;` yields
\* Assign(a, Op(+, 1, Op(*, 2, 3))), `a = 1 - 2 - 3;` yields Op(-, Op(-, 1, 2), 3).
C6_PrecedenceAndLeftAssociativity ==
    tokens \in FlatPrograms =>
        /\ pc # "error"
        /\ pc = "done" => stmtsNode.children = <<Assign("a", RefTree(Rhs(tokens)))>>

C6_Witness ==
    /\ pc = "done"
    /\ tokens = AssignProgram(<<NUM("1"), OP("+"), NUM("2"), OP("*"), NUM("3")>>)
    /\ stmtsNode.children =
          <<Assign("a", Op2("+", Leaf(NUM("1")), Op2("*", Leaf(NUM("2")), Leaf(NUM("3")))))>>

\* C7: in every returned AST each NODE_OP node has exactly 1 child when its
\* operator is `!`, `++`, `--` or `neg`, and exactly 2 children otherwise.
C7_OperatorArity ==
    pc = "done" =>
        \A n \in Subtrees(result.node) :
            n.type = "NODE_OP" =>
                Len(n.children) = (IF n.value \in {"!", "++", "--", "neg"} THEN 1 ELSE 2)

\* the index of the last `(` among the first n tokens that no later `)` of
\* them closes, 0 if there is none
RECURSIVE LastOpen(_, _, _)
LastOpen(toks, n, depth) ==
    IF n = 0 THEN 0
    ELSE IF toks[n] = SEP(")") THEN LastOpen(toks, n - 1, depth + 1)
    ELSE IF toks[n] = SEP("(")
         THEN IF depth = 0 THEN n ELSE LastOpen(toks, n - 1, depth - 1)
    ELSE LastOpen(toks, n - 1, depth)

\* the operands consumed since the start of the expression, or since the `(`
\* on top of the operator stack when there is one
OperandsSinceStartOrParen ==
    IF opStack # <<>> /\ Last(opStack) = "("
    THEN OperandCount(tokens, current) - OperandCount(tokens, LastOpen(tokens, current, 0))
    ELSE OperandCount(tokens, current)

\* the engine consumes a `-` and relabels it `neg`
RelabelStep ==
    /\ pc = "exprLoop"
    /\ peek(tokens, current) = OP("-")
    /\ current' = current + 1
    /\ relabel("-", nodeStack, opStack) = "neg"

ParenMinus == <<SEP("("), NUM("1"), OP("-"), NUM("2"), SEP(")"), SEP(";")>>

\* C8: a `-` is relabelled `neg` only when no left operand is available: no
\* operand was pushed since the start of the expression or since the `(` on
\* top of the operator stack; a `-` after an operand stays binary, also inside
\* parentheses: `(1 - 2)` yields Op(-, 1, 2).
C8_RelabelOnlyWithoutLeftOperand ==
    [][ /\ RelabelStep => OperandsSinceStartOrParen = 0
        /\ (tokens = ParenMinus /\ pc' = "done") =>
              result'.node = TreeNode("NODE_EXPR", "", <<Op2("-", Leaf(NUM("1")), Leaf(NUM("2")))>>)
      ]_vars

\* the leaves of a tree, left to right
RECURSIVE Leaves(_), LeavesOfAll(_, _)
Leaves(n) == IF n.children = <<>> THEN <<n.value>> ELSE LeavesOfAll(n.children, 1)

LeavesOfAll(ch, i) == IF i > Len(ch) THEN <<>> ELSE Leaves(ch[i]) \o LeavesOfAll(ch, i + 1)

\* `(` minus `)` among the first n tokens
RECURSIVE Depth(_, _)
Depth(s, n) ==
    IF n = 0 THEN 0
    ELSE Depth(s, n - 1) + (IF s[n] = SEP("(") THEN 1 ELSE IF s[n] = SEP(")") THEN -1 ELSE 0)

\* the positions of every `(` and of the `)` that closes it
ParenPairs(s) ==
    {p \in (1..Len(s)) \X (1..Len(s)) :
        /\ p[1] < p[2]
        /\ s[p[1]] = SEP("(")
        /\ s[p[2]] = SEP(")")
        /\ Depth(s, p[2]) = Depth(s, p[1]) - 1
        /\ \A k \in p[1]..(p[2] - 1) : Depth(s, k) >= Depth(s, p[1])}

\* the values of operands number from + 1 .. to
OperandValues(from, to) == [k \in 1..(to - from) |-> Operand(from + k).value]

ParenPrograms == {AssignProgram(e) : e \in ParenExprs}

\* C9: parentheses override precedence: for a right-hand side with balanced
\* parentheses the parse succeeds, the operators between a `(` and its `)` are
\* reduced into one operand (one subtree holds exactly the operands between
\* them), the operands keep their order and no node stands for a parenthesis;
\* `a = (1 + 2) * 3;` yields Op(*, Op(+, 1, 2), 3).
C9_ParenthesesGroup ==
    tokens \in ParenPrograms =>
        /\ pc # "error"
        /\ pc = "done" =>
              LET e == Rhs(tokens)
                  root == OnlyStmt.children[2].children[1]
              IN  /\ OnlyStmt.type = "NODE_ASSIGN"
                  /\ OnlyStmt.children[2].type = "NODE_EXPR"
                  /\ Leaves(root) = OperandValues(0, OperandCount(e, Len(e)))
                  /\ \A n \in Subtrees(root) :
                        /\ n.type \in {"NODE_OP", "NODE_NUM"}
                        /\ n.value \notin {"(", ")"}
                        /\ n.type = "NODE_OP" => Len(n.children) = 2
                  /\ \A p \in ParenPairs(e) :
                        \E t \in Subtrees(root) :
                            Leaves(t) = OperandValues(OperandCount(e, p[1]), OperandCount(e, p[2]))
                  /\ e = <<SEP("("), NUM("1"), OP("+"), NUM("2"), SEP(")"), OP("*"), NUM("3")>> =>
                        root = Op2("*", Op2("+", Leaf(NUM("1")), Leaf(NUM("2"))), Leaf(NUM("3")))

C9_Witness ==
    /\ pc = "done"
    /\ tokens = AssignProgram(<<NUM("1"), OP("*"), SEP("("), NUM("2"), OP("+"), NUM("3"), SEP(")")>>)
    /\ stmtsNode.children =
          <<Assign("a", Op2("*", Leaf(NUM("1")), Op2("+", Leaf(NUM("2")), Leaf(NUM("3")))))>>

ExprOf(x) == TreeNode("NODE_EXPR", "", <<x>>)

\* what parseBoolExpr is to return for a condition of Conds
BoolNodeOf(c) ==
    IF Len(c) = 1 THEN ExprOf(Leaf(c[1]))
    ELSE TreeNode("NODE_BOOL", c[2].value, <<ExprOf(Leaf(c[1])), ExprOf(Leaf(c[3]))>>)

BoolDeclProgram(c) == <<KW("bool"), ID("b"), OP("=")>> \o c \o <<SEP(";")>>

\* the conditions whose first token makes parseAssignStmt call parseBoolExpr
BoolEntryConds == {c \in Conds : c[1].type \in {"TOKEN_ID", "TOKEN_BOOL"}}

\* C10: given two arithmetic expressions around one comparison operator, as
\* in `bool b = x < y;` or `a = x < y;`, parseBoolExpr returns a NODE_BOOL node
\* tagged with the operator, with exactly 2 children (left, right); without a
\* comparison operator it returns the arithmetic result unchanged.
C10_BoolExprBuildsBoolNode ==
    /\ \A c \in Conds :
          (tokens = BoolDeclProgram(c) /\ Finished) =>
              /\ pc = "done"
              /\ programNode.children[1].children[1].children[3] = BoolNodeOf(c)
    /\ \A c \in BoolEntryConds :
          (tokens = AssignProgram(c) /\ Finished) =>
              /\ pc = "done"
              /\ OnlyStmt.children[2] = BoolNodeOf(c)

\* x is on stack s
OnStack(x, s) == \E i \in 1..Len(s) : s[i] = x

\* the loop of parseArithmeticExpr ends at this step
DrainStep == pc = "exprLoop" /\ ~exprLoopCond(tokens, current) /\ pc' # "exprLoop"

\* C11: an expression ends in a fatal error, with no tree returned, when a
\* `(` is on the operator stack at drain time, when a `)` is met with no `(`
\* on the operator stack, when no operand remains after the drain and when
\* more than one remains; an expression that returns leaves exactly one
\* operand, wrapped in an Expression node.
C11_ExpressionTermination ==
    [][ /\ (DrainStep /\ OnStack("(", opStack)) => pc' = "error"
        /\ (/\ pc = "exprLoop"
            /\ peek(tokens, current) = SEP(")")
            /\ ~OnStack("(", opStack)
            /\ current' = current + 1) => pc' = "error"
        /\ (DrainStep /\ Len(nodeStack') # 1) => pc' = "error"
        /\ pc' = "error" => (~result'.ok /\ result'.node = nullptr)
        /\ (tokens = <<SEP(";")>> /\ pc' # pc) => pc' = "error"
        /\ (DrainStep /\ pc' = "done") =>
              /\ Len(nodeStack') = 1
              /\ opStack' = <<>>
              /\ result'.node = TreeNode("NODE_EXPR", "", <<nodeStack'[1]>>)
      ]_vars

C11_Witness ==
    /\ tokens = <<NUM("1"), NUM("2"), SEP(";")>>
    /\ pc = "error"
    /\ result.msg = "Malformed expression"
    /\ Len(nodeStack) = 2

AssignOps == {"=", "+=", "-=", "*=", "/=", "++", "--"}

\* C12: an identifier in statement position is accepted only when one of the
\* seven assignment operators follows it; followed by anything else, another
\* operator included (`a + 1;`, `a == 1;`), it is a fatal error.  An
\* Assignment node has 1 child for ++ and --, 2 otherwise.
C12_OnlyAssignmentOperators ==
    /\ (/\ tokens \in OperatorStmtPrograms
        /\ tokens[2] \notin {OP(o) : o \in AssignOps}
        /\ Finished) => pc = "error"
    /\ (tokens \in OperatorStmtPrograms /\ pc = "done") =>
          /\ OnlyStmt.type = "NODE_ASSIGN"
          /\ Len(OnlyStmt.children) = (IF OnlyStmt.value \in {"++", "--"} THEN 1 ELSE 2)

\* C13: when parse returns a tree, every token has been consumed; a `}` at
\* top level that closes no block is a fatal error.
C13_ReturnConsumesEveryToken ==
    /\ pc = "done" => current = Len(tokens)
    /\ (tokens \in StrayBracePrograms /\ Finished) => pc = "error"

ForAllOmitted ==
    <<KW("for"), SEP("("), SEP(";"), SEP(";"), SEP(")"), SEP("{"), SEP("}")>>

\* the For nodes of the returned tree
ForNodes == {n \in Subtrees(stmtsNode) : n.type = "NODE_FOR"}

\* C14: every For node of a returned tree has exactly 4 children (init,
\* condition, update, body); an omitted clause is a null child, a clause that
\* is present is not, and the body is a Block, never null.  `for ( ; ; ) { }`
\* yields a For node with three null children and a Block with no children.
C14_ForNodeHasFourSlots ==
    /\ pc = "done" =>
          \A n \in ForNodes :
              /\ Len(n.children) = 4
              /\ n.children[1].type \in {"nullptr", "NODE_ASSIGN", "NODE_LIST"}
              /\ n.children[2].type \in {"nullptr", "NODE_BOOL", "NODE_EXPR"}
              /\ n.children[3].type \in {"nullptr", "NODE_ASSIGN"}
              /\ n.children[4].type = "NODE_BLOCK"
    /\ (tokens \in ForPrograms /\ pc = "done") =>
          \A i \in ForInits, c \in ForConds, u \in ForUpdates, b \in ForBodies :
              tokens = ForProgram(i, c, u, b) =>
                  /\ (OnlyStmt.children[1] = nullptr) <=> (i = <<SEP(";")>>)
                  /\ (OnlyStmt.children[2] = nullptr) <=> (c = <<>>)
                  /\ (OnlyStmt.children[3] = nullptr) <=> (u = <<>>)
    /\ (tokens = ForAllOmitted /\ Finished) =>
          /\ pc = "done"
          /\ stmtsNode.children =
                <<TreeNode("NODE_FOR", "",
                           <<nullptr, nullptr, nullptr, TreeNode("NODE_BLOCK", "", <<>>)>>)>>

C14_Witness ==
    /\ tokens = ForAllOmitted
    /\ pc = "done"
    /\ ForNodes # {}

\* the declaration nodes of the tree, once parseDecls has returned
DeclLists ==
    IF pc \in {"parseStmts", "done"}
    THEN {n \in Subtrees(programNode.children[1]) : n.type = "NODE_LIST"}
    ELSE {}

\* C15: every declaration parseDecls accepts has at least one identifier
\* after the type keyword: every NODE_LIST has a TypeTag as first child and an
\* Identifier as second, and a type keyword directly followed by `;`, as in
\* `int ; ;`, is a fatal error.
C15_DeclarationHasIdentifier ==
    /\ \A n \in DeclLists :
          /\ Len(n.children) >= 2
          /\ n.children[1].type = "NODE_TYPE"
          /\ n.children[2].type = "NODE_ID"
    /\ (tokens = <<KW("int"), SEP(";"), SEP(";")>> /\ Finished) => pc = "error"

\* C16: writing the scanned tokens as records and reading them back with
\* readTokens gives, token for token, the same kind and the same lexeme: the
\* lexeme without the quotes and without the line and column fields, and the
\* codes 0..8 back to the nine kinds, bitwise (7) distinct from error (8).
C16_RecordRoundTrip ==
    pc = "read" =>
        /\ Len(tokens) = Len(scanned)
        /\ \A i \in 1..Len(scanned) :
              /\ tokens[i].type = scanned[i].type
              /\ tokens[i].value = scanned[i].value

\* the 1-based line and column of the character at 0-based position p
LineOf(src, p) == 1 + Cardinality({i \in 1..p : src[i] = "\n"})

ColumnOf(src, p) ==
    LET newlines == {i \in 1..p : src[i] = "\n"}
    IN  IF newlines = {} THEN p + 1
        ELSE p + 1 - (CHOOSE i \in newlines : \A j \in newlines : j <= i)

\* where the next token starts: the position after white space and comments
TokenStart == skipWhitespace(source, lexState).pos

\* getNextToken returns a token to main at this step
TokenStep == pc = "lex" /\ scanned' # scanned

\* C17: every token getNextToken returns, LexError tokens included, records
\* the 1-based line and column of the first character of its source text,
\* also after newlines in white space and comments.
C17_TokenPosition ==
    [][ TokenStep =>
          /\ Last(scanned').line = LineOf(source, TokenStart)
          /\ Last(scanned').column = ColumnOf(source, TokenStart)
      ]_vars

\* every token of a source, in order
RECURSIVE ScanFrom(_, _, _)
ScanFrom(src, st, out) ==
    Then(getNextToken(src, st),
         LAMBDA r : IF isEndSentinel(r.tok) THEN out ELSE ScanFrom(src, r.st, Append(out, r.tok)))

\* the (kind, lexeme) pairs of the tokens of a source
KindLexemes(src) ==
    Then(ScanFrom(src, LexState(0, 1, 1), <<>>),
         LAMBDA toks : [i \in 1..Len(toks) |-> <<toks[i].type, toks[i].value>>])

\* white space and comments to insert between two tokens
Insertions ==
    { <<" ">>, <<"\n">>, <<"#", "c", "\n">>, <<"/", "/", "c", "\n">>,
      <<"/", "*", "c", "*", "/">> }

Insert(src, p, ins) == SubSeq(src, 1, p) \o ins \o SubSeq(src, p + 1, Len(src))

\* the scanner stands between two tokens: one was returned, one follows
BetweenTokens ==
    /\ pc = "lex"
    /\ scanned # <<>>
    /\ ~isEndSentinel(getNextToken(source, lexState).tok)

\* C18: inserting a space, a newline, a line comment ended by a newline or a
\* block comment at a boundary between two adjacent tokens (right after the
\* first or right before the second) leaves the sequence of (kind, lexeme)
\* pairs unchanged, whatever the two tokens are.
C18_InsertionInvariance ==
    BetweenTokens =>
        \A ins \in Insertions, p \in {pos, TokenStart} :
            KindLexemes(Insert(source, p, ins)) = KindLexemes(source)

\* C19: the lexeme of every token, LexError tokens included, is the source
\* substring the token was derived from: the text between the start of the
\* token and the cursor after it.
C19_LexemeIsSourceText ==
    [][ TokenStep => Last(scanned').value = SubSeq(source, TokenStart + 1, pos') ]_vars

\* the character a token starts with, and the one after it
StartChar == charAt(source, TokenStart)

StartPair == <<StartChar, charAt(source, TokenStart + 1)>>

\* the next token is a symbol and no 2-character operator matches
OneCharSymbolStep ==
    /\ TokenStep
    /\ ~isalnum(StartChar)
    /\ StartChar # "_"
    /\ StartPair \notin operators \cup bit_operators

\* C20: when no 2-character operator matches, a character of the 1-character
\* operator table, of the bitwise-operator table or of the separator table is
\* one token of kind Operator, BitwiseOperator or Separator, in that order of
\* priority; a LexError is emitted only for a character of none of the three
\* tables, and the cursor moves past it.
C20_OneCharacterSymbols ==
    [][ OneCharSymbolStep =>
          /\ pos' = TokenStart + 1
          /\ <<StartChar>> \in operators =>
                (Last(scanned').type = "TOKEN_OP" /\ Last(scanned').value = <<StartChar>>)
          /\ (<<StartChar>> \in bit_operators \ operators) =>
                (Last(scanned').type = "TOKEN_BIT_OP" /\ Last(scanned').value = <<StartChar>>)
          /\ (<<StartChar>> \in separators \ (operators \cup bit_operators)) =>
                (Last(scanned').type = "TOKEN_SEP" /\ Last(scanned').value = <<StartChar>>)
          /\ Last(scanned').type = "TOKEN_ERROR" =>
                <<StartChar>> \notin operators \cup bit_operators \cup separators
      ]_vars

\* the operators of two characters, by kind
TwoCharOperators ==
    { <<"+", "=">>, <<"-", "=">>, <<"*", "=">>, <<"/", "=">>, <<"=", "=">>, <<"!", "=">>,
      <<"<", "=">>, <<">", "=">>, <<"&", "&">>, <<"|", "|">>, <<"+", "+">>, <<"-", "-">> }

TwoCharBitwise == {<<"<", "<">>, <<">", ">">>}

\* C21: when the two characters at the start of a token form one of the 14
\* operators of two characters, the scanner returns one token with that
\* lexeme and moves two characters on; its kind is Operator, BitwiseOperator
\* for << and >>.  Longer runs split from the left: +++ gives ++ then +.
C21_TwoCharacterOperators ==
    [][ /\ (TokenStep /\ StartPair \in TwoCharOperators \cup TwoCharBitwise) =>
              /\ Last(scanned').value = StartPair
              /\ Last(scanned').type =
                    (IF StartPair \in TwoCharBitwise THEN "TOKEN_BIT_OP" ELSE "TOKEN_OP")
              /\ pos' = TokenStart + 2
        /\ (source = <<"+", "+", "+">> /\ pc' = "lexed") =>
              /\ Len(scanned') = 2
              /\ scanned'[1].value = <<"+", "+">>
              /\ scanned'[2].value = <<"+">>
      ]_vars

C21_Witness ==
    /\ source = <<"+", "+", "+">>
    /\ pc = "lexed"
    /\ Len(scanned) = 2
    /\ scanned[1].type = "TOKEN_OP"

\* the first position at or after p whose character is not in cs
RunEnd(src, p, cs) ==
    CHOOSE q \in p..Len(src) :
        /\ \A i \in p..(q - 1) : charAt(src, i) \in cs
        /\ charAt(src, q) \notin cs

\* the end of the numeric run that starts at p: digits, a `.` and digits, a
\* second `.` and digits (only after a first `.`), and letters, digits and
\* underscores when a letter or an underscore follows directly
FractionEnd(src, p) ==
    IF charAt(src, p) # "." THEN p
    ELSE LET d == RunEnd(src, p + 1, Digits)
         IN  IF charAt(src, d) = "." THEN RunEnd(src, d + 1, Digits) ELSE d

NumberRunEnd(src, p) ==
    LET f == FractionEnd(src, RunEnd(src, p, Digits))
    IN  IF charAt(src, f) \in Letters \cup {"_"}
        THEN RunEnd(src, f, Letters \cup Digits \cup {"_"})
        ELSE f

\* the kind of a run: digits only, digits `.` digits, anything else
NumberKind(run) ==
    LET dots == {i \in 1..Len(run) : run[i] = "."}
    IN  IF \A i \in 1..Len(run) : run[i] \in Digits THEN "TOKEN_NUM"
        ELSE IF /\ Cardinality(dots) = 1
                /\ \A i \in (1..Len(run)) \ dots : run[i] \in Digits
                /\ Len(run) \notin dots
             THEN "TOKEN_FLOAT"
        ELSE "TOKEN_ERROR"

\* the numeric run at the start of the next token
NumberRun == SubSeq(source, TokenStart + 1, NumberRunEnd(source, TokenStart))

\* C22: a lexeme that starts with a digit is one token: IntLiteral for a
\* digit run, FloatLiteral for digits, one `.` and at least one digit, and one
\* LexError in every other case (no digit after the `.`, a second `.`, a
\* letter or underscore directly after the run), the token ending where the
\* run ends.  `12abc` and `1.2.3` each give exactly one LexError token.
C22_NumberIsOneToken ==
    [][ /\ (TokenStep /\ isdigit(StartChar)) =>
              /\ pos' = NumberRunEnd(source, TokenStart)
              /\ Last(scanned').type = NumberKind(NumberRun)
              /\ Last(scanned').type # "TOKEN_ERROR" => Last(scanned').value = NumberRun
        /\ (/\ source \in {<<"1", "2", "a", "b", "c">>, <<"1", ".", "2", ".", "3">>}
            /\ pc' = "lexed") =>
              (Len(scanned') = 1 /\ scanned'[1].type = "TOKEN_ERROR")
      ]_vars

C22_Witness ==
    /\ source = <<"1", "2", "a", "b", "c">>
    /\ pc = "lexed"
    /\ Len(scanned) = 1
    /\ scanned[1].type = "TOKEN_ERROR"

\* the tokens scanned from state st on, as kind and extent in the source,
\* the extent counted from position base
RECURSIVE ScanExtents(_, _, _, _)
ScanExtents(src, st, base, out) ==
    Then(getNextToken(src, st),
         LAMBDA r :
             IF isEndSentinel(r.tok) THEN out
             ELSE ScanExtents(src, r.st, base,
                              Append(out, <<r.tok.type, skipWhitespace(src, st).pos - base,
                                            r.st.pos - base>>)))

\* the rest of the source from position p on
Suffix(src, p) == SubSeq(src, p + 1, Len(src))

\* getNextToken returns a LexError token at this step
ErrorStep == TokenStep /\ Last(scanned').type = "TOKEN_ERROR"

\* where the characters of the error that starts the next token end
ErrorEnd == IF isdigit(StartChar) THEN NumberRunEnd(source, TokenStart) ELSE TokenStart + 1

\* C23: a lexical error never ends the scan: it is returned as a LexError
\* token, the cursor stands directly after the characters of the error, and
\* the following calls return the tokens of the remaining suffix (same kinds,
\* same extents).  Every call that returns a token moves the cursor by at
\* least one character and never past the end, so a source of n characters
\* gives at most n tokens before the end sentinel.
C23_ErrorsDoNotStopTheScan ==
    [][ /\ TokenStep =>
              /\ pos' > pos
              /\ pos' <= Len(source)
              /\ Len(scanned') <= pos'
              /\ pc' = "lex"
              /\ getNextToken(source, LexState(pos', line', column')).st.pos >= pos'
        /\ ErrorStep =>
              /\ Last(scanned').value # <<>>
              /\ pos' = ErrorEnd
              /\ ScanExtents(source, LexState(pos', line', column'), pos', <<>>)
                    = ScanExtents(Suffix(source, pos'), LexState(0, 1, 1), 0, <<>>)
      ]_vars

C23_Witness ==
    /\ pc = "read"
    /\ Len(scanned) = 3
    /\ scanned[1].type = "TOKEN_ERROR"
    /\ scanned[2].type = "TOKEN_ERROR"
    /\ scanned[3].type = "TOKEN_ID"

\* the scan loop has ended
ScanEnded == pc \in {"lexed", "read"}

\* C24: getNextToken returns the end sentinel exactly when no character
\* remains after white space and comments; no token returned for an error has
\* an empty lexeme; after the sentinel every further call returns the sentinel
\* again and leaves pos, line and column as they are.
C24_EndSentinel ==
    /\ pc = "lex" =>
          (isEndSentinel(getNextToken(source, lexState).tok) <=> TokenStart >= Len(source))
    /\ \A i \in 1..Len(scanned) : scanned[i].value # <<>>
    /\ ScanEnded =>
          /\ pos = Len(source)
          /\ getNextToken(source, lexState) = Scanned(EndSentinel, lexState)

C24_Witness ==
    /\ ScanEnded
    /\ Len(scanned) = 2
    /\ scanned[2].type = "TOKEN_ERROR"
    /\ Last(source) = "\n"

\* a `/*` at position q with no `*/` after it
Unclosed(src, q) ==
    /\ charAt(src, q) = "/"
    /\ charAt(src, q + 1) = "*"
    /\ ~\E i \in (q + 2)..Len(src) : charAt(src, i) = "*" /\ charAt(src, i + 1) = "/"

\* the `/*` at q opens a comment for a scanner in state st: what stands
\* between the cursor and q is white space and complete comments (the source
\* cut at q and followed by a letter is skipped up to the letter)
OpensComment(src, st, q) ==
    /\ st.pos <= q
    /\ skipWhitespace(Append(SubSeq(src, 1, q), "x"), st).pos = q

\* the positions of the unclosed `/*` the scanner is about to meet
UnclosedAhead ==
    {q \in 0..Len(source) : Unclosed(source, q) /\ OpensComment(source, lexState, q)}

\* C25: when the scanner meets a `/*` that no `*/` closes, the tokens before
\* it are the tokens of the text before it, no LexError is returned for the
\* comment, everything up to the end of the source is discarded and the next
\* call returns the end sentinel.
C25_UnterminatedBlockComment ==
    (pc = "lex" /\ UnclosedAhead # {}) =>
        /\ isEndSentinel(getNextToken(source, lexState).tok)
        /\ getNextToken(source, lexState).st.pos = Len(source)
        /\ \A q \in UnclosedAhead :
              scanned = ScanFrom(SubSeq(source, 1, q), LexState(0, 1, 1), <<>>)

C25_Witness ==
    /\ pc = "lex"
    /\ UnclosedAhead # {}
    /\ scanned # <<>>
    /\ \E q \in UnclosedAhead : q + 2 < Len(source)

\* the tokens an expression ends before
ExprTerminators ==
    {SEP(";"), SEP(","), SEP("{"), KW("then"), KW("do"), KW("else")}

\* the engine consumes a ")"
RParenStep == pc = "exprLoop" /\ peek(tokens, current) = SEP(")") /\ current' = current + 1

\* the messages of processOp
ReductionErrors == {"Missing operand for unary operator", "Missing operands for binary operator"}

\* C26: parseArithmeticExpr returns only with the end of input, `;`, `,`, `{`
\* or one of the keywords then, do, else as lookahead, and leaves that token
\* unconsumed; it never returns with `)` as lookahead: a `)` it meets is
\* matched against a `(` of its operator stack, which it pops, or ends in a
\* fatal error, "Unmatched parentheses" unless a reduction has failed first.
C26_ExpressionStopsAtTerminator ==
    [][ /\ pc' = "done" =>
              /\ current' = current
              /\ isAtEnd(tokens, current') \/ peek(tokens, current') \in ExprTerminators
              /\ peek(tokens, current') # SEP(")")
        /\ (pc = "exprLoop" /\ peek(tokens, current) = SEP(")")) => (RParenStep /\ pc' # "done")
        /\ (RParenStep /\ pc' = "exprLoop") =>
              /\ OnStack("(", opStack)
              /\ Cardinality({i \in 1..Len(opStack') : opStack'[i] = "("})
                    = Cardinality({i \in 1..Len(opStack) : opStack[i] = "("}) - 1
        /\ (RParenStep /\ ~OnStack("(", opStack)) =>
              /\ pc' = "error"
              /\ result'.msg \in {"Unmatched parentheses"} \cup ReductionErrors
      ]_vars

C26_Witness ==
    /\ pc = "done"
    /\ peek(tokens, current) = SEP("{")
    /\ current = 3
    /\ Len(nodeStack) = 1

\* C26 as stated: a `)` met with no `(` on the operator stack always ends in
\* the error "Unmatched parentheses".
C26_UnmatchedIsTheOnlyError ==
    [][ (RParenStep /\ ~OnStack("(", opStack)) =>
              /\ pc' = "error"
              /\ result'.msg = "Unmatched parentheses"
      ]_vars

\* expressions of operands and the binary operators `+`, `*`, `<` alone
PlainExprs ==
    {e \in SeqsUpTo({ID("a"), NUM("1"), NUM("2"), OP("+"), OP("*"), OP("<")}, MaxExprLen) : e # <<>>}

\* operands at the odd places, binary operators at the even places between them
Alternates(e) ==
    /\ Len(e) % 2 = 1
    /\ \A i \in 1..Len(e) : (e[i].type = "TOKEN_OP") <=> (i % 2 = 0)

\* C27: the engine accepts only infix expressions: in an accepted expression
\* operands and binary operators alternate, and the postfix `a = 1 2 +;` and
\* the prefix `a = + 1 2;` are fatal errors.
C27_OnlyInfixAccepted ==
    /\ (tokens = AssignProgram(<<NUM("1"), NUM("2"), OP("+")>>) /\ Finished) => pc = "error"
    /\ (tokens = AssignProgram(<<OP("+"), NUM("1"), NUM("2")>>) /\ Finished) => pc = "error"
    /\ \A e \in PlainExprs : (tokens = AssignProgram(e) /\ pc = "done") => Alternates(e)

\* the operators of the OperatorApplication nodes of the returned statements
TreeOperators ==
    {n.value : n \in {m \in Subtrees(stmtsNode) : m.type = "NODE_OP"}}

\* C28: every operator of an OperatorApplication node of a returned tree is an
\* entry of the precedence table or `neg`; an Operator token without an entry
\* is a fatal error: `a = b = c;` and `a = b & c;` produce no tree.
C28_OnlyTableOperatorsReduced ==
    /\ pc = "done" => TreeOperators \subseteq (DOMAIN PrecedenceTable) \cup {"neg"}
    /\ (tokens = AssignProgram(<<ID("b"), OP("="), ID("c")>>) /\ Finished) => pc = "error"
    /\ (tokens = AssignProgram(<<ID("b"), OP("&"), ID("c")>>) /\ Finished) => pc = "error"

\* C29: prefix unary operators nest and apply innermost first: `a = !!b;` is
\* accepted and yields Op(!, Op(!, b)).
C29_UnaryOperatorsNest ==
    (tokens = AssignProgram(<<OP("!"), OP("!"), ID("b")>>) /\ Finished) =>
        /\ pc = "done"
        /\ OnlyStmt = Assign("a", Op1("!", Op1("!", Leaf(ID("b")))))

\* operand and operator stacks the engine can hold at the head of an iteration
LoopNodeStacks ==
    {<<>>, <<Leaf(NUM("1"))>>, <<Leaf(NUM("1")), Leaf(ID("a"))>>}

LoopOpStacks ==
    {<<>>, <<"(">>, <<"+">>, <<"*">>, <<"!">>, <<"neg">>, <<"(", "+">>, <<"+", "*">>}

\* an iteration of the loop of parseStmts or parseBlock that starts at cur
\* consumes at least one token, or fails at cur or after it
StmtIterationAdvances(cur) ==
    stmtsLoopCond(tokens, cur) =>
        \A r \in {parseStmt(tokens, cur)} :
            /\ r.ok => r.cur > cur
            /\ r.cur \in cur..Len(tokens)

\* an iteration of the outer loop of parseDecls that starts at cur consumes
\* the type keyword and whatever its declarators take
DeclIterationAdvances(cur) ==
    (~isAtEnd(tokens, cur) /\ isTypeKeyword(tokens, cur)) =>
        \A d \in {declsVarLoop(tokens, cur + 1, peek(tokens, cur).value, <<>>)} :
            d.cur \in (cur + 1)..Len(tokens)

\* an iteration of the main loop of parseArithmeticExpr that starts at cur
\* consumes exactly one token or fails
ExprIterationAdvances(cur) ==
    exprLoopCond(tokens, cur) =>
        \A ns \in LoopNodeStacks : \A os \in LoopOpStacks :
            \A s \in {exprStep(tokens, Engine(cur, ns, os, ""))} :
                \/ s.err # "" /\ s.cur \in cur..(cur + 1)
                \/ s.err = "" /\ s.cur = cur + 1

\* C30: Parser.parse terminates for every finite token sequence: each
\* iteration of the loops of parseDecls, parseStmts, parseBlock and
\* parseArithmeticExpr consumes at least one token or ends in a fatal error,
\* the cursor never decreases, 0 <= current <= number of tokens holds in
\* every state, so the statements collected never outnumber the tokens
\* consumed and the loop of parseStmts runs at most once per token.
C30_ParseTerminates ==
    [][ /\ current' >= current
        /\ current \in 0..Len(tokens)
        /\ current' \in 0..Len(tokens)
        /\ (pc' = pc) => current' > current
        /\ Len(stmtsNode'.children) <= current'
        /\ pc = "parseDecls" =>
              \A cur \in 0..Len(tokens) :
                  /\ StmtIterationAdvances(cur)
                  /\ DeclIterationAdvances(cur)
                  /\ ExprIterationAdvances(cur)
      ]_vars

C30_Witness ==
    /\ pc = "done"
    /\ current = Len(tokens)
    /\ Len(stmtsNode.children) = 1
    /\ OnlyStmt.type = "NODE_FOR"
    /\ \E b \in Subtrees(OnlyStmt) : b.type = "NODE_BLOCK" /\ Len(b.children) = 1

====
